---- MODULE Spec2Model ----
(***************************************************************************)
(* A model of ProtectMyImages (pmi): the worker pool of src/parallel.rs,   *)
(* the batch processor of src/processor.rs and the byte-level codecs of    *)
(* src/formats.  Buffers are sequences of bytes (0..255), 1-indexed here   *)
(* where the Rust code is 0-indexed: data[i] of the code is data[i + 1].   *)
(***************************************************************************)
EXTENDS Integers, Sequences, FiniteSets, TLC

VARIABLES
    \* ---- ThreadPool (parallel.rs) ----
    workers,    \* number of Worker threads spawned by ThreadPool::new (0: no pool yet)
    sender,     \* TRUE while ThreadPool.sender is Some (the job channel is open)
    jobs,       \* the job channel: jobs sent by execute and not yet received
    rxLock,     \* holder of the Mutex<Receiver<Job>>: a worker id, or 0 when free
    wpc,        \* wpc[w]: position of worker w in the loop of Worker::new
    wjob,       \* wjob[w]: the job worker w received and is running, or NoJob
    wloc,       \* wloc[w]: the locals of the job closure worker w is running
    \* ---- the thread that owns the pool ----
    mpc,        \* position of the calling thread
    mi,         \* its loop index
    \* ---- parallel_map / thread pool test ----
    items,      \* the items argument
    nthreads,   \* the num_threads argument
    results,    \* Arc<Mutex<Vec<(usize, R)>>>, in push order
    ret,        \* the returned vector
    counter,    \* the AtomicUsize of test_thread_pool_execute
    dropBacklog, \* history: jobs still queued or running when Drop began (-1 before)
    \* ---- Processor (processor.rs) and the file system it works on ----
    config,     \* Config: in_place, force, dry_run, output_dir
    files,      \* the batch: Vec<PathBuf> returned by collect_files
    fsdir,      \* directory entries: existing path |-> inode number
    inodes,     \* inodes[n]: the bytes of the file with inode number n
    unreadable, \* paths whose fs::read fails (permission denied)
    resultCh,   \* the mpsc channel of ProcessResult: sent, not yet received
    resultTx,   \* number of live Sender<ProcessResult> clones
    stats,      \* Processor.stats: ProcessingStats
    handled,    \* history: the results passed to handle_result, in order
    touched,    \* history: touched[i] = paths job i created, wrote or renamed
    \* ---- strip_metadata applied to one buffer, then to its own output ----
    sin,        \* the input buffer
    sres,       \* strip_metadata(sin), once computed
    sres2,      \* strip_metadata(output of the first call), once computed
    spc,        \* how far the two calls got
    cpu,        \* the crc32::compute path of this build and CPU
    crcOut,     \* the u32 crc32::compute returned for `sin`, once computed
    detected,   \* what detect_format returned for `sin`, once computed
    spaths,     \* the paths strip_metadata is called with: <<first, second>>
    \* ---- main (main.rs) and Processor::run ----
    dirs,       \* the directories that exist
    runResult,  \* what Processor::run returned: "none" before, "Ok" or "Err"
    exitCode,   \* the ExitCode main returned, -1 before
    disk0       \* history: the file system when Processor::run was called

mainVars == <<mpc, mi>>
mapVars == <<items, nthreads, results, ret, counter>>

procVars == <<config, files, fsdir, inodes, unreadable, resultCh, resultTx, stats,
              handled, touched>>
stripVars == <<sin, sres, sres2, spc, cpu, crcOut, detected, spaths>>
runVars == <<dirs, runResult, exitCode, disk0>>

vars == <<workers, sender, jobs, rxLock, wpc, wjob, wloc, dropBacklog, mpc, mi,
          items, nthreads, results, ret, counter, procVars, stripVars, runVars>>

poolVars == <<workers, sender, jobs, rxLock, wpc, wjob>>

\* ---- bounds of the model ----
MaxThreads == 3
MaxItems == 3
MaxPoolJobs == 3

NoJob == [kind |-> "none"]
NoLoc == [kind |-> "none"]

Min(a, b) == IF a < b THEN a ELSE b

(***************************************************************************)
(* Byte buffers.  Offsets and positions are the code's (0-based).          *)
(***************************************************************************)

\* data[i]
At(data, i) == data[i + 1]

\* &data[a..b]
Slice(data, a, b) == SubSeq(data, a + 1, b)

\* data.starts_with(prefix)
StartsWith(data, prefix) ==
    /\ Len(data) >= Len(prefix)
    /\ SubSeq(data, 1, Len(prefix)) = prefix

\* A codec's result: Ok(bytes) or Err(InvalidImage).  "Diverges" stands for a
\* call that never returns.
Ok(bytes) == [kind |-> "Ok", data |-> bytes]
InvalidImage == [kind |-> "InvalidImage", data |-> <<>>]
Diverges == [kind |-> "Diverges", data |-> <<>>]

(***************************************************************************)
(* formats/tiff.rs                                                         *)
(***************************************************************************)

LITTLE_ENDIAN == <<73, 73>>
BIG_ENDIAN == <<77, 77>>

\* ByteOrder::read_u16 of the two bytes at data[pos..]; bo is "Little" or "Big".
ReadU16(bo, data, pos) ==
    IF bo = "Little" THEN At(data, pos) + 256 * At(data, pos + 1)
    ELSE 256 * At(data, pos) + At(data, pos + 1)

\* ByteOrder::read_u32 of the four bytes at data[pos..].
ReadU32(bo, data, pos) ==
    IF bo = "Little"
    THEN At(data, pos) + 256 * At(data, pos + 1) + 65536 * At(data, pos + 2)
         + 16777216 * At(data, pos + 3)
    ELSE 16777216 * At(data, pos) + 65536 * At(data, pos + 1)
         + 256 * At(data, pos + 2) + At(data, pos + 3)

\* ByteOrder::write_u16
WriteU16(bo, v) ==
    IF bo = "Little" THEN <<v % 256, (v \div 256) % 256>>
    ELSE <<(v \div 256) % 256, v % 256>>

\* ByteOrder::write_u32
WriteU32(bo, v) ==
    IF bo = "Little"
    THEN <<v % 256, (v \div 256) % 256, (v \div 65536) % 256, (v \div 16777216) % 256>>
    ELSE <<(v \div 16777216) % 256, (v \div 65536) % 256, (v \div 256) % 256, v % 256>>

STRIP_OFFSETS == 273
STRIP_BYTE_COUNTS == 279
TILE_OFFSETS == 324
TILE_BYTE_COUNTS == 325

\* METADATA_TAGS: ImageDescription, Make, Model, Software, DateTime, Artist,
\* HostComputer, Copyright, ExifIFD, GPSIFD, XMP, IPTC, Photoshop,
\* InteroperabilityIFD.
METADATA_TAGS ==
    {270, 271, 272, 305, 306, 315, 316, 33432, 34665, 34853, 700, 33723, 34377, 40965}

IsMetadataTag(tag) == tag \in METADATA_TAGS

\* type_size(field_type)
TypeSize(ft) ==
    IF ft \in {1, 2, 6, 7} THEN 1
    ELSE IF ft \in {3, 8} THEN 2
    ELSE IF ft \in {4, 9, 11} THEN 4
    ELSE IF ft \in {5, 10, 12} THEN 8
    ELSE 1

\* IfdEntry::is_inline
IsInline(e) == TypeSize(e.field_type) * e.count <= 4

\* The entry the 12 bytes at data[pos..] hold.
ReadEntry(bo, data, pos) ==
    [tag |-> ReadU16(bo, data, pos),
     field_type |-> ReadU16(bo, data, pos + 2),
     count |-> ReadU32(bo, data, pos + 4),
     value_offset |-> Slice(data, pos + 8, pos + 12)]

\* parse_ifd(data, offset, byte_order): Ok with the entries and the next-IFD
\* pointer, or an error when the count, an entry or the pointer is truncated.
ParseIfd(data, offset, bo) ==
    IF offset + 2 > Len(data) THEN [ok |-> FALSE, entries |-> <<>>, next |-> 0]
    ELSE LET n == ReadU16(bo, data, offset)
             \* the loop fails at the first entry i with pos + 12 > len
             fits == \A i \in 0..(n - 1) : offset + 2 + 12 * i + 12 <= Len(data)
             endPos == offset + 2 + 12 * n
         IN  IF ~fits \/ endPos + 4 > Len(data)
             THEN [ok |-> FALSE, entries |-> <<>>, next |-> 0]
             ELSE [ok |-> TRUE,
                   entries |-> [i \in 1..n |-> ReadEntry(bo, data, offset + 2 + 12 * (i - 1))],
                   next |-> ReadU32(bo, data, endPos)]

\* entries.into_iter().filter(|e| !is_metadata_tag(e.tag)).collect()
RECURSIVE FilterEntries(_)
FilterEntries(entries) ==
    IF entries = <<>> THEN <<>>
    ELSE IF IsMetadataTag(Head(entries).tag) THEN FilterEntries(Tail(entries))
    ELSE <<Head(entries)>> \o FilterEntries(Tail(entries))

\* The while loop of strip that walks the IFD chain from `cur`; `seen` are the
\* offsets parsed so far.  An offset met again is parsed again with the same
\* result, so the loop never ends: Diverges.
RECURSIVE WalkIfds(_, _, _, _, _)
WalkIfds(data, bo, cur, seen, acc) ==
    IF ~(cur # 0 /\ cur < Len(data)) THEN [kind |-> "Ok", ifds |-> acc]
    ELSE IF cur \in seen THEN [kind |-> "Diverges", ifds |-> acc]
    ELSE LET p == ParseIfd(data, cur, bo)
         IN  IF ~p.ok THEN [kind |-> "InvalidImage", ifds |-> acc]
             ELSE WalkIfds(data, bo, p.next, seen \cup {cur},
                           Append(acc, FilterEntries(p.entries)))

\* How many i of 0..count-1 satisfy offset + i*size + size <= len: the checks of
\* read_offset_values hold for a prefix of the indices.
InRangeCount(count, offset, size, len) ==
    IF len - offset < size THEN 0 ELSE Min(count, (len - offset) \div size)

\* read_offset_values(data, entry, byte_order)
ReadOffsetValues(data, e, bo) ==
    IF IsInline(e)
    THEN IF e.field_type = 3
         THEN [i \in 1..Min(e.count, 2) |-> ReadU16(bo, e.value_offset, (i - 1) * 2)]
         ELSE IF e.field_type = 4 /\ e.count >= 1
         THEN <<ReadU32(bo, e.value_offset, 0)>>
         ELSE <<>>
    ELSE LET offset == ReadU32(bo, e.value_offset, 0)
         IN  IF e.field_type = 3
             THEN [i \in 1..InRangeCount(e.count, offset, 2, Len(data)) |->
                       ReadU16(bo, data, offset + (i - 1) * 2)]
             ELSE IF e.field_type = 4
             THEN [i \in 1..InRangeCount(e.count, offset, 4, Len(data)) |->
                       ReadU32(bo, data, offset + (i - 1) * 4)]
             ELSE <<>>

\* entries.iter().find(|e| e.tag == STRIP_BYTE_COUNTS || e.tag == TILE_BYTE_COUNTS):
\* the index of the first such entry, 0 when there is none.
FindByteCounts(entries) ==
    LET hits == {i \in 1..Len(entries) :
                    entries[i].tag \in {STRIP_BYTE_COUNTS, TILE_BYTE_COUNTS}}
    IN  IF hits = {} THEN 0 ELSE CHOOSE i \in hits : \A j \in hits : i <= j

\* The (offset, count) pairs one entry adds to data_to_copy.
EntryDataToCopy(data, bo, entries, e) ==
    IF e.tag \in {STRIP_OFFSETS, TILE_OFFSETS} /\ FindByteCounts(entries) # 0
    THEN LET offsets == ReadOffsetValues(data, e, bo)
             counts == ReadOffsetValues(data, entries[FindByteCounts(entries)], bo)
         IN  [i \in 1..Min(Len(offsets), Len(counts)) |-> <<offsets[i], counts[i]>>]
    ELSE <<>>

\* The value field written for a retained entry: the input's, verbatim.
EntryValueField(e) == e.value_offset

\* The 12 bytes written for a retained entry.
WriteEntry(bo, e) ==
    WriteU16(bo, e.tag) \o WriteU16(bo, e.field_type) \o WriteU32(bo, e.count)
    \o EntryValueField(e)

RECURSIVE WriteEntries(_, _)
WriteEntries(bo, entries) ==
    IF entries = <<>> THEN <<>>
    ELSE WriteEntry(bo, Head(entries)) \o WriteEntries(bo, Tail(entries))

RECURSIVE IfdDataToCopy(_, _, _, _)
IfdDataToCopy(data, bo, entries, rest) ==
    IF rest = <<>> THEN <<>>
    ELSE EntryDataToCopy(data, bo, entries, Head(rest))
         \o IfdDataToCopy(data, bo, entries, Tail(rest))

\* The next-IFD pointer written after IFD i of n: 0 on both branches.
NextIfdPointer(i, n) == 0

\* One IFD of the output: entry count, entries, next-IFD pointer.
WriteIfd(bo, entries, i, n) ==
    WriteU16(bo, Len(entries) % 65536) \o WriteEntries(bo, entries)
    \o WriteU32(bo, NextIfdPointer(i, n))

RECURSIVE WriteIfds(_, _, _)
WriteIfds(bo, ifds, i) ==
    IF i > Len(ifds) THEN <<>>
    ELSE WriteIfd(bo, ifds[i], i, Len(ifds)) \o WriteIfds(bo, ifds, i + 1)

RECURSIVE AllDataToCopy(_, _, _, _)
AllDataToCopy(data, bo, ifds, i) ==
    IF i > Len(ifds) THEN <<>>
    ELSE IfdDataToCopy(data, bo, ifds[i], ifds[i]) \o AllDataToCopy(data, bo, ifds, i + 1)

\* for (offset, count) in data_to_copy { if offset + count <= data.len() { .. } }
RECURSIVE CopyData(_, _)
CopyData(data, pairs) ==
    IF pairs = <<>> THEN <<>>
    ELSE (IF Head(pairs)[1] + Head(pairs)[2] <= Len(data)
          THEN Slice(data, Head(pairs)[1], Head(pairs)[1] + Head(pairs)[2])
          ELSE <<>>)
         \o CopyData(data, Tail(pairs))

\* The header of the output: byte order, 42, and the offset of the first IFD,
\* which stays 0 when there is no IFD and is 8 otherwise.
TiffHeader(bo, ifds) ==
    (IF bo = "Little" THEN LITTLE_ENDIAN ELSE BIG_ENDIAN)
    \o WriteU16(bo, 42)
    \o WriteU32(bo, IF ifds = <<>> THEN 0 ELSE 8)

\* The rewritten file: header, IFDs, then the strip/tile data.
TiffRewrite(data, bo, ifds) ==
    TiffHeader(bo, ifds) \o WriteIfds(bo, ifds, 1)
    \o CopyData(data, AllDataToCopy(data, bo, ifds, 1))

\* "If output is smaller than a reasonable minimum, just return original data".
TiffFallback(data, output) ==
    IF Len(output) < 100 /\ Len(data) > 100 THEN data ELSE output

\* tiff::strip(data, path)
TiffStrip(data) ==
    IF Len(data) < 8 THEN InvalidImage
    ELSE IF Slice(data, 0, 2) # LITTLE_ENDIAN /\ Slice(data, 0, 2) # BIG_ENDIAN
    THEN InvalidImage
    ELSE LET bo == IF Slice(data, 0, 2) = LITTLE_ENDIAN THEN "Little" ELSE "Big"
         IN  IF ReadU16(bo, data, 2) # 42 THEN InvalidImage
             ELSE IF ReadU32(bo, data, 4) >= Len(data) THEN InvalidImage
             ELSE LET walk == WalkIfds(data, bo, ReadU32(bo, data, 4), {}, <<>>)
                  IN  IF walk.kind = "InvalidImage" THEN InvalidImage
                      ELSE IF walk.kind = "Diverges" THEN Diverges
                      ELSE Ok(TiffFallback(data, TiffRewrite(data, bo, walk.ifds)))

(***************************************************************************)
(* formats/jpeg.rs                                                         *)
(***************************************************************************)

MARKER_PREFIX == 255
SOI == 216
EOI == 217
SOS == 218
RST0 == 208
RST7 == 215

\* A marker test that counts every APP1..APP15 segment as metadata.
IsMetadataMarkerAllApp(m) == (225 <= m /\ m <= 239) \/ m = 254

\* is_metadata_marker: APP1, APP2..APP12, APP13, APP15, COM.
IsMetadataMarker(m) == m = 225 \/ (226 <= m /\ m <= 236) \/ m = 237 \/ m = 239 \/ m = 254

\* is_standalone_marker: SOI, EOI, RST0..RST7, 0x00, 0xFF.
IsStandaloneMarker(m) == m \in {SOI, EOI} \/ (RST0 <= m /\ m <= RST7) \/ m \in {0, 255}

\* u16::from_be_bytes([data[pos], data[pos + 1]])
BE16(data, pos) == 256 * At(data, pos) + At(data, pos + 1)

\* The inner loop of the SOS branch: copy entropy-coded data from pos on.  Ends
\* at the end of the buffer, after an EOI (which it copies), or before any other
\* marker.  Returns the new position and output.
RECURSIVE JpegScan(_, _, _)
JpegScan(data, pos, out) ==
    IF pos >= Len(data) THEN [pos |-> pos, out |-> out]
    ELSE IF At(data, pos) = MARKER_PREFIX /\ pos + 1 < Len(data)
    THEN LET next == At(data, pos + 1)
         IN  IF next = 0 \/ (RST0 <= next /\ next <= RST7)
             THEN JpegScan(data, pos + 2, out \o <<MARKER_PREFIX, next>>)
             ELSE IF next = EOI
             THEN [pos |-> pos + 2, out |-> out \o <<MARKER_PREFIX, EOI>>]
             ELSE [pos |-> pos, out |-> out]
    ELSE JpegScan(data, pos + 1, Append(out, At(data, pos)))

\* while pos < data.len() && data[pos] == 0xFF { pos += 1 }
RECURSIVE SkipFF(_, _)
SkipFF(data, pos) ==
    IF pos < Len(data) /\ At(data, pos) = MARKER_PREFIX THEN SkipFF(data, pos + 1) ELSE pos

\* The segment loop of jpeg::strip from position pos with the output so far.
RECURSIVE JpegSegments(_, _, _)
JpegSegments(data, pos, out) ==
    IF pos >= Len(data) THEN Ok(out)
    ELSE IF At(data, pos) # MARKER_PREFIX THEN InvalidImage
    ELSE LET p1 == SkipFF(data, pos)
         IN  IF p1 >= Len(data) THEN Ok(out)
             ELSE LET marker == At(data, p1)
                      p == p1 + 1
                  IN  IF marker = EOI THEN Ok(out \o <<MARKER_PREFIX, EOI>>)
                      ELSE IF marker = SOS
                      THEN IF p + 2 > Len(data) THEN InvalidImage
                           ELSE IF p + BE16(data, p) > Len(data) THEN InvalidImage
                           ELSE LET sc == JpegScan(data, p + BE16(data, p),
                                                   out \o <<MARKER_PREFIX, SOS>>
                                                       \o Slice(data, p, p + BE16(data, p)))
                                IN  JpegSegments(data, sc.pos, sc.out)
                      ELSE IF IsStandaloneMarker(marker) THEN JpegSegments(data, p, out)
                      ELSE IF p + 2 > Len(data) THEN InvalidImage
                      ELSE IF BE16(data, p) < 2 THEN InvalidImage
                      ELSE IF p + BE16(data, p) > Len(data) THEN InvalidImage
                      ELSE IF IsMetadataMarker(marker)
                      THEN JpegSegments(data, p + BE16(data, p), out)
                      ELSE JpegSegments(data, p + BE16(data, p),
                                        out \o <<MARKER_PREFIX, marker>>
                                            \o Slice(data, p, p + BE16(data, p)))

\* jpeg::strip(data, path)
JpegStrip(data) ==
    IF Len(data) < 4 THEN InvalidImage
    ELSE IF At(data, 0) # MARKER_PREFIX \/ At(data, 1) # SOI THEN InvalidImage
    ELSE JpegSegments(data, 2, <<MARKER_PREFIX, SOI>>)

(***************************************************************************)
(* formats/gif.rs                                                          *)
(***************************************************************************)

GIF87A == <<71, 73, 70, 56, 55, 97>>
GIF89A == <<71, 73, 70, 56, 57, 97>>
EXTENSION == 33
IMAGE == 44
TRAILER == 59
\* "NETSCAPE2.0"
NETSCAPE_ID == <<78, 69, 84, 83, 67, 65, 80, 69, 50, 46, 48>>

\* 2^n
RECURSIVE Pow2(_)
Pow2(n) == IF n = 0 THEN 1 ELSE 2 * Pow2(n - 1)

\* The size of a colour table from a packed byte: 3 * (1 << ((packed & 7) + 1)),
\* 0 when the flag bit 0x80 is clear.
ColorTableSize(packed) == IF packed >= 128 THEN 3 * Pow2((packed % 8) + 1) ELSE 0

\* skip_sub_blocks(data, pos): the position after the terminator, -1 for None.
RECURSIVE SkipSubBlocks(_, _)
SkipSubBlocks(data, pos) ==
    IF pos >= Len(data) THEN -1
    ELSE IF At(data, pos) = 0 THEN pos + 1
    ELSE IF pos + 1 + At(data, pos) > Len(data) THEN -1
    ELSE SkipSubBlocks(data, pos + 1 + At(data, pos))

\* A test that takes every application extension for the looping extension.
IsAnyApplication(data, pos) == pos + 12 <= Len(data)

\* is_netscape_extension(data, pos)
IsNetscapeExtension(data, pos) ==
    /\ pos + 12 <= Len(data)
    /\ At(data, pos) = 11
    /\ Slice(data, pos + 1, pos + 12) = NETSCAPE_ID

\* The block loop of gif::strip.  read_sub_blocks returns the bytes it walked
\* over, the very bytes skip_sub_blocks skips, and fails where it fails.
RECURSIVE GifBlocks(_, _, _)
GifBlocks(data, pos, out) ==
    IF pos >= Len(data) THEN Ok(out)
    ELSE LET bt == At(data, pos)
         IN  IF bt = EXTENSION
             THEN IF pos + 2 > Len(data) THEN InvalidImage
                  ELSE LET ext == At(data, pos + 1)
                           end == SkipSubBlocks(data, pos + 2)
                           keep == \/ ext \in {249, 1}
                                   \/ ext = 255 /\ IsNetscapeExtension(data, pos + 2)
                       IN  IF end = -1 THEN InvalidImage
                           ELSE IF keep
                           THEN GifBlocks(data, end, out \o Slice(data, pos, end))
                           ELSE GifBlocks(data, end, out)
             ELSE IF bt = IMAGE
             THEN IF pos + 10 > Len(data) THEN InvalidImage
                  ELSE LET lct == ColorTableSize(At(data, pos + 9))
                           p == pos + 10 + lct
                       IN  IF p > Len(data) THEN InvalidImage
                           ELSE IF p >= Len(data) THEN InvalidImage
                           ELSE IF SkipSubBlocks(data, p + 1) = -1 THEN InvalidImage
                           ELSE GifBlocks(data, SkipSubBlocks(data, p + 1),
                                          out \o Slice(data, pos, SkipSubBlocks(data, p + 1)))
             ELSE IF bt = TRAILER THEN Ok(Append(out, TRAILER))
             ELSE GifBlocks(data, pos + 1, out)

\* if !output.ends_with(&[TRAILER]) { output.push(TRAILER) }
EnsureTrailer(out) ==
    IF out # <<>> /\ out[Len(out)] = TRAILER THEN out ELSE Append(out, TRAILER)

\* gif::strip(data, path)
GifStrip(data) ==
    IF Len(data) < 13 THEN InvalidImage
    ELSE IF ~StartsWith(data, GIF87A) /\ ~StartsWith(data, GIF89A) THEN InvalidImage
    ELSE LET gct == ColorTableSize(At(data, 10))
         IN  IF 13 + gct > Len(data) THEN InvalidImage
             ELSE LET r == GifBlocks(data, 13 + gct, Slice(data, 0, 13 + gct))
                  IN  IF r.kind = "Ok" THEN Ok(EnsureTrailer(r.data)) ELSE r

(***************************************************************************)
(* formats/webp.rs                                                         *)
(***************************************************************************)

RIFF == <<82, 73, 70, 70>>
WEBP == <<87, 69, 66, 80>>
FOURCC_EXIF == <<69, 88, 73, 70>>
FOURCC_XMP == <<88, 77, 80, 32>>
FOURCC_VP8 == <<86, 80, 56, 32>>
FOURCC_VP8L == <<86, 80, 56, 76>>
FOURCC_VP8X == <<86, 80, 56, 88>>

\* A test that knows the 'EXIF' chunk only.
IsExifChunk(fourcc) == fourcc = FOURCC_EXIF

\* webp is_metadata_chunk
IsWebpMetadataChunk(fourcc) == fourcc \in {FOURCC_EXIF, FOURCC_XMP}

\* u32::from_le_bytes of the four bytes at data[pos..]
LE32(data, pos) == ReadU32("Little", data, pos)

\* (size + 1) & !1
PaddedSize(size) == size + (size % 2)

\* webp parse_chunks from pos: Ok with the chunks, or an error.
RECURSIVE WebpParseChunks(_, _, _)
WebpParseChunks(data, pos, acc) ==
    IF pos >= Len(data) \/ pos + 4 > Len(data) THEN [ok |-> TRUE, chunks |-> acc]
    ELSE IF pos + 8 > Len(data) THEN [ok |-> FALSE, chunks |-> acc]
    ELSE LET size == LE32(data, pos + 4)
         IN  IF pos + 8 + size > Len(data) THEN [ok |-> FALSE, chunks |-> acc]
             ELSE WebpParseChunks(data, pos + 8 + PaddedSize(size),
                      Append(acc, [fourcc |-> Slice(data, pos, pos + 4),
                                   data |-> Slice(data, pos + 8, pos + 8 + size)]))

\* result[0] &= !(0x08 | 0x20)
ClearExifXmpBits(b) ==
    b - (IF (b \div 8) % 2 = 1 THEN 8 ELSE 0) - (IF (b \div 32) % 2 = 1 THEN 32 ELSE 0)

\* An update that needs the whole ten bytes of a VP8X header.
UpdateVp8xFlagsOfTen(d) ==
    IF Len(d) < 10 THEN d ELSE <<ClearExifXmpBits(d[1])>> \o Tail(d)

\* update_vp8x_flags(vp8x_data)
UpdateVp8xFlags(d) ==
    IF Len(d) < 4 THEN d ELSE <<ClearExifXmpBits(d[1])>> \o Tail(d)

\* webp Chunk::write_to
WebpWriteChunk(fourcc, d) ==
    fourcc \o WriteU32("Little", Len(d)) \o d \o (IF Len(d) % 2 # 0 THEN <<0>> ELSE <<>>)

RECURSIVE WebpWriteChunks(_)
WebpWriteChunks(chunks) ==
    IF chunks = <<>> THEN <<>>
    ELSE LET c == Head(chunks)
         IN  (IF IsWebpMetadataChunk(c.fourcc) THEN <<>>
              ELSE IF c.fourcc = FOURCC_VP8X
              THEN WebpWriteChunk(c.fourcc, UpdateVp8xFlags(c.data))
              ELSE WebpWriteChunk(c.fourcc, c.data))
             \o WebpWriteChunks(Tail(chunks))

\* webp::strip(data, path)
WebpStrip(data) ==
    IF Len(data) < 12 THEN InvalidImage
    ELSE IF ~StartsWith(data, RIFF) THEN InvalidImage
    ELSE IF Slice(data, 8, 12) # WEBP THEN InvalidImage
    ELSE LET p == WebpParseChunks(data, 12, <<>>)
         IN  IF ~p.ok THEN InvalidImage
             ELSE IF ~\E i \in 1..Len(p.chunks) :
                        p.chunks[i].fourcc \in {FOURCC_VP8, FOURCC_VP8L, FOURCC_VP8X}
             THEN InvalidImage
             ELSE LET body == WebpWriteChunks(p.chunks)
                  IN  Ok(RIFF \o WriteU32("Little", 4 + Len(body))
                         \o WEBP \o body)

(***************************************************************************)
(* simd.rs: crc32                                                          *)
(***************************************************************************)

\* a ^ b on unsigned integers
RECURSIVE Xor(_, _)
Xor(a, b) ==
    IF a = 0 THEN b
    ELSE IF b = 0 THEN a
    ELSE ((a + b) % 2) + 2 * Xor(a \div 2, b \div 2)

\* A u32 is held as its two 16-bit halves [hi, lo].
U32(hi, lo) == [hi |-> hi, lo |-> lo]
Xor32(x, y) == U32(Xor(x.hi, y.hi), Xor(x.lo, y.lo))
\* x >> 1
Shr1(x) == U32(x.hi \div 2, (x.lo \div 2) + 32768 * (x.hi % 2))
\* x >> 8
Shr8(x) == U32(x.hi \div 256, (x.lo \div 256) + 256 * (x.hi % 256))
\* u32::from_le_bytes of four bytes
FromLeBytes(b) == U32(b[3] + 256 * b[4], b[1] + 256 * b[2])
\* x.to_be_bytes()
ToBeBytes(x) == <<x.hi \div 256, x.hi % 256, x.lo \div 256, x.lo % 256>>
ALL_ONES == U32(65535, 65535)

\* 0xEDB88320, the reflected polynomial of CRC-32/ISO-3309: the one of
\* CRC32_TABLE and of the aarch64 __crc32b/__crc32d instructions.
POLY_ISO == U32(60856, 33568)
\* 0x82F63B78, the reflected Castagnoli polynomial: the one the SSE4.2 crc32
\* instruction uses.
POLY_CASTAGNOLI == U32(33526, 15224)

\* One round of generate_crc32_table:
\* if crc & 1 != 0 { crc = (crc >> 1) ^ poly } else { crc >>= 1 }
CrcRound(poly, crc) == IF crc.lo % 2 # 0 THEN Xor32(Shr1(crc), poly) ELSE Shr1(crc)

\* generate_crc32_table, entry i: eight rounds from i.
RECURSIVE CrcRounds(_, _, _)
CrcRounds(poly, i, j) ==
    IF j = 0 THEN U32(0, i) ELSE CrcRound(poly, CrcRounds(poly, i, j - 1))

\* const CRC32_TABLE: [u32; 256] = generate_crc32_table()
CRC32_TABLE == [i \in 0..255 |-> CrcRounds(POLY_ISO, i, 8)]
\* the same table for the polynomial the SSE4.2 instruction implements
CRC32C_TABLE == [i \in 0..255 |-> CrcRounds(POLY_CASTAGNOLI, i, 8)]

CrcTable(poly, i) == IF poly = POLY_ISO THEN CRC32_TABLE[i] ELSE CRC32C_TABLE[i]

\* TABLE[(crc & 0xFF)] ^ (crc >> 8)
TableStep(poly, crc) == Xor32(CrcTable(poly, crc.lo % 256), Shr8(crc))

\* One byte folded into the running value:
\* TABLE[((crc ^ byte) & 0xFF)] ^ (crc >> 8).
CrcByte(poly, crc, byte) ==
    Xor32(CrcTable(poly, Xor(crc.lo, byte) % 256), Shr8(crc))

\* The bytes folded in from first to last.
RECURSIVE CrcBytes(_, _, _)
CrcBytes(poly, crc, bytes) ==
    IF bytes = <<>> THEN crc
    ELSE LET prev == CrcBytes(poly, crc, SubSeq(bytes, 1, Len(bytes) - 1))
         IN  IF prev.lo >= 0 THEN CrcByte(poly, prev, bytes[Len(bytes)]) ELSE prev

\* compute_software: four bytes at a time (xor the little-endian word in, then
\* four table steps), then the remainder bytewise; initial value and final xor
\* 0xFFFFFFFF.
\* The value after the first k whole 4-byte chunks.
RECURSIVE SoftwareChunks(_, _)
SoftwareChunks(bytes, k) ==
    IF k = 0 THEN ALL_ONES
    ELSE LET prev == SoftwareChunks(bytes, k - 1)
             x == Xor32(prev, FromLeBytes(SubSeq(bytes, 4 * k - 3, 4 * k)))
         IN  IF prev.lo >= 0
             THEN TableStep(POLY_ISO, TableStep(POLY_ISO,
                      TableStep(POLY_ISO, TableStep(POLY_ISO, x))))
             ELSE prev

ComputeSoftware(bytes) ==
    LET k == Len(bytes) \div 4
    IN  Xor32(CrcBytes(POLY_ISO, SoftwareChunks(bytes, k),
                       SubSeq(bytes, 4 * k + 1, Len(bytes))),
              ALL_ONES)

\* compute_sse42: _mm_crc32_u64 / _mm_crc32_u8 fold the bytes in with the
\* Castagnoli polynomial.
ComputeSse42(bytes) == Xor32(CrcBytes(POLY_CASTAGNOLI, ALL_ONES, bytes), ALL_ONES)

\* compute_arm_crc32: __crc32d / __crc32b fold the bytes in with the ISO polynomial.
ComputeArmCrc32(bytes) == Xor32(CrcBytes(POLY_ISO, ALL_ONES, bytes), ALL_ONES)

\* crc32::compute: the path the build and the CPU select.
Compute(bytes) ==
    IF cpu = "x86_64+sse4.2" THEN ComputeSse42(bytes)
    ELSE IF cpu = "aarch64+crc" THEN ComputeArmCrc32(bytes)
    ELSE ComputeSoftware(bytes)

(***************************************************************************)
(* formats/png.rs                                                          *)
(***************************************************************************)

PNG_SIGNATURE == <<137, 80, 78, 71, 13, 10, 26, 10>>
TYPE_IHDR == <<73, 72, 68, 82>>
TYPE_IEND == <<73, 69, 78, 68>>
\* tEXt, zTXt, iTXt, eXIf, tIME
METADATA_CHUNKS ==
    {<<116, 69, 88, 116>>, <<122, 84, 88, 116>>, <<105, 84, 88, 116>>,
     <<101, 88, 73, 102>>, <<116, 73, 77, 69>>}

\* png is_metadata_chunk
IsPngMetadataChunk(t) == t \in METADATA_CHUNKS

\* png parse_chunks from pos: the chunks up to and including the first IEND.
RECURSIVE PngParseChunks(_, _, _)
PngParseChunks(data, pos, acc) ==
    IF pos >= Len(data) THEN [ok |-> TRUE, chunks |-> acc]
    ELSE IF pos + 4 > Len(data) THEN [ok |-> FALSE, chunks |-> acc]
    ELSE IF pos + 8 > Len(data) THEN [ok |-> FALSE, chunks |-> acc]
    ELSE LET length == ReadU32("Big", data, pos)
             ctype == Slice(data, pos + 4, pos + 8)
         IN  IF pos + 8 + length > Len(data) THEN [ok |-> FALSE, chunks |-> acc]
             ELSE IF pos + 8 + length + 4 > Len(data) THEN [ok |-> FALSE, chunks |-> acc]
             ELSE LET acc2 == Append(acc, [chunk_type |-> ctype,
                                           data |-> Slice(data, pos + 8, pos + 8 + length)])
                  IN  IF ctype = TYPE_IEND THEN [ok |-> TRUE, chunks |-> acc2]
                      ELSE PngParseChunks(data, pos + 12 + length, acc2)

\* png Chunk::write_to: length, type, data, and the CRC computed over type and data.
PngWriteChunk(c) ==
    WriteU32("Big", Len(c.data)) \o c.chunk_type \o c.data
    \o ToBeBytes(Compute(c.chunk_type \o c.data))

RECURSIVE PngWriteChunks(_)
PngWriteChunks(chunks) ==
    IF chunks = <<>> THEN <<>>
    ELSE (IF IsPngMetadataChunk(Head(chunks).chunk_type) THEN <<>>
          ELSE PngWriteChunk(Head(chunks)))
         \o PngWriteChunks(Tail(chunks))

\* png::strip(data, path)
PngStrip(data) ==
    IF Len(data) < Len(PNG_SIGNATURE) THEN InvalidImage
    ELSE IF ~StartsWith(data, PNG_SIGNATURE) THEN InvalidImage
    ELSE LET p == PngParseChunks(data, Len(PNG_SIGNATURE), <<>>)
         IN  IF ~p.ok THEN InvalidImage
             ELSE IF ~\E i \in 1..Len(p.chunks) : p.chunks[i].chunk_type = TYPE_IHDR
             THEN InvalidImage
             ELSE IF ~\E i \in 1..Len(p.chunks) : p.chunks[i].chunk_type = TYPE_IEND
             THEN InvalidImage
             ELSE Ok(PNG_SIGNATURE \o PngWriteChunks(p.chunks))

(***************************************************************************)
(* formats/mod.rs                                                          *)
(***************************************************************************)

\* A detection that accepts a buffer as soon as it holds the JPEG signature.
DetectFormatNoMinimum(data) ==
    IF StartsWith(data, <<255, 216, 255>>) THEN "Jpeg"
    ELSE IF Len(data) < 12 THEN "None"
    ELSE IF StartsWith(data, PNG_SIGNATURE) THEN "Png"
    ELSE IF StartsWith(data, GIF87A) \/ StartsWith(data, GIF89A) THEN "Gif"
    ELSE IF StartsWith(data, RIFF) /\ Slice(data, 8, 12) = WEBP THEN "WebP"
    ELSE "Tiff"

\* detect_format(data): "Jpeg", "Png", "Gif", "WebP", "Tiff" or "None".
DetectFormat(data) ==
    IF Len(data) < 12 THEN "None"
    ELSE IF StartsWith(data, <<255, 216, 255>>) THEN "Jpeg"
    ELSE IF StartsWith(data, PNG_SIGNATURE) THEN "Png"
    ELSE IF StartsWith(data, GIF87A) \/ StartsWith(data, GIF89A) THEN "Gif"
    ELSE IF StartsWith(data, RIFF) /\ Slice(data, 8, 12) = WEBP THEN "WebP"
    ELSE IF StartsWith(data, <<73, 73, 42, 0>>) \/ StartsWith(data, <<77, 77, 0, 42>>)
    THEN "Tiff"
    ELSE "None"

\* original_size.saturating_sub(result.len())
SaturatingSub(a, b) == IF a >= b THEN a - b ELSE 0

\* path.extension()?.to_str()?.to_lowercase(), for the extensions of the samples.
ToLowercase(ext) ==
    IF ext = "JPG" THEN "jpg"
    ELSE IF ext = "PNG" THEN "png"
    ELSE ext

\* detect_format_from_extension(path): the format that lists the lower-cased
\* extension, "None" for an unknown extension and for a path without one.
DetectFormatFromExtension(path) ==
    LET ext == ToLowercase(path.ext)
    IN  IF ext \in {"jpg", "jpeg", "jpe", "jfif"} THEN "Jpeg"
        ELSE IF ext = "png" THEN "Png"
        ELSE IF ext = "gif" THEN "Gif"
        ELSE IF ext = "webp" THEN "WebP"
        ELSE IF ext \in {"tif", "tiff"} THEN "Tiff"
        ELSE "None"

\* A strip_metadata that falls back on the extension when the bytes are not
\* recognised.
FormatOrExtension(data, path) ==
    IF DetectFormat(data) # "None" THEN DetectFormat(data)
    ELSE DetectFormatFromExtension(path)

\* The format strip_metadata picks the codec by: detect_format(data).
FormatToStrip(data, path) == DetectFormat(data)

\* No error: the call returned Ok.
NoError == [path |-> <<>>, detected |-> "None"]

\* strip_metadata(data, path): [kind, data, bytes_removed, error]; kind is "Ok",
\* "UnsupportedFormat", "InvalidImage", or "Diverges" when the codec never
\* returns.  The error carries the path, and for UnsupportedFormat the format
\* the extension suggests.
StripMetadataAt(data, path) ==
    LET format == FormatToStrip(data, path)
        r == IF format = "Jpeg" THEN JpegStrip(data)
             ELSE IF format = "Png" THEN PngStrip(data)
             ELSE IF format = "Gif" THEN GifStrip(data)
             ELSE IF format = "WebP" THEN WebpStrip(data)
             ELSE TiffStrip(data)
    IN  IF format = "None"
        THEN [kind |-> "UnsupportedFormat", data |-> <<>>, bytes_removed |-> 0,
              error |-> [path |-> path, detected |-> DetectFormatFromExtension(path)]]
        ELSE IF r.kind = "Ok"
        THEN [kind |-> "Ok", data |-> r.data,
              bytes_removed |-> SaturatingSub(Len(data), Len(r.data)),
              error |-> NoError]
        ELSE [kind |-> r.kind, data |-> <<>>, bytes_removed |-> 0,
              error |-> [path |-> path, detected |-> "None"]]

\* strip_metadata(data, path) without the diagnostics of its error:
\* [kind, data, bytes_removed].
StripMetadata(data) ==
    LET r == StripMetadataAt(data, [dir |-> "", stem |-> "image", ext |-> ""])
    IN  [kind |-> r.kind, data |-> r.data, bytes_removed |-> r.bytes_removed]

(***************************************************************************)
(* ThreadPool: new, execute, Drop, and the worker loop.                    *)
(***************************************************************************)

\* ThreadPool::new(n): a fresh channel, n workers at the top of their loop.
ThreadPoolNew(n) ==
    /\ workers' = n
    /\ sender' = TRUE
    /\ jobs' = <<>>
    /\ rxLock' = 0
    /\ wpc' = [w \in 1..n |-> "lock"]
    /\ wjob' = [w \in 1..n |-> NoJob]
    /\ wloc' = [w \in 1..n |-> NoLoc]

\* ThreadPool::execute(f): send the boxed job when the sender is still there.
PoolExecute(job) ==
    jobs' = IF sender THEN Append(jobs, job) ELSE jobs

\* receiver.lock(): the worker takes the mutex of the shared receiver.
WorkerLock(w) ==
    /\ wpc[w] = "lock"
    /\ rxLock = 0
    /\ rxLock' = w
    /\ wpc' = [wpc EXCEPT ![w] = "recv"]
    /\ UNCHANGED <<workers, sender, jobs, wjob, wloc, dropBacklog, mainVars, mapVars, procVars, stripVars, runVars>>

\* A pool whose workers keep the receiver mutex while they run the job.
LockHeldWhileRunning(w) == w

\* The holder of the receiver mutex once lock.recv() has returned and the block
\* `{ let lock = ...; lock.recv() }` has ended: the guard is dropped before the
\* match on the job.
LockAfterRecv(w) == 0

\* lock.recv() returns Ok(job): the oldest queued job, also after the sender was
\* dropped (an mpsc channel hands out buffered messages before it reports
\* disconnection).  It blocks while the queue is empty and the sender alive.
WorkerRecv(w) ==
    /\ wpc[w] = "recv"
    /\ rxLock = w
    /\ jobs # <<>>
    /\ wjob' = [wjob EXCEPT ![w] = Head(jobs)]
    /\ jobs' = Tail(jobs)
    /\ rxLock' = LockAfterRecv(w)
    /\ wpc' = [wpc EXCEPT ![w] = "run"]
    /\ UNCHANGED <<workers, sender, wloc, dropBacklog, mainVars, mapVars, procVars, stripVars, runVars>>

\* lock.recv() returns Err: queue empty and sender dropped; the worker breaks
\* out of its loop and the thread ends.
WorkerRecvClosed(w) ==
    /\ wpc[w] = "recv"
    /\ rxLock = w
    /\ jobs = <<>>
    /\ ~sender
    /\ rxLock' = 0
    /\ wpc' = [wpc EXCEPT ![w] = "exited"]
    /\ UNCHANGED <<workers, sender, jobs, wjob, wloc, dropBacklog, mainVars, mapVars, procVars, stripVars, runVars>>

\* Drop for ThreadPool, first statement: drop(self.sender.take()).
PoolDropSender ==
    /\ mpc = "drop"
    /\ sender' = FALSE
    /\ dropBacklog' = Len(jobs) + Cardinality({w \in 1..workers : wjob[w] # NoJob})
    /\ mpc' = "join"
    /\ mi' = 1
    /\ UNCHANGED <<workers, jobs, rxLock, wpc, wjob, wloc, mapVars, procVars, stripVars, runVars>>

\* A drop that does not wait for the worker threads.
JoinableNoWait(w) == TRUE

\* Whether thread.join() of worker w can return.
Joinable(w) == wpc[w] = "exited"

\* Drop for ThreadPool, the loop: join the workers in order; after the last one
\* drop returns and the caller goes on at `next`.
PoolJoin(next) ==
    /\ mpc = "join"
    /\ mi <= workers
    /\ Joinable(mi)
    /\ mi' = mi + 1
    /\ mpc' = IF mi = workers THEN next ELSE "join"
    /\ UNCHANGED <<poolVars, wloc, dropBacklog, mapVars, procVars, stripVars, runVars>>

(***************************************************************************)
(* test_thread_pool_execute: a pool of n workers, k counting jobs, drop.   *)
(***************************************************************************)

\* No pool yet, nothing submitted.
NoPool ==
    /\ workers = 0 /\ sender = FALSE /\ jobs = <<>> /\ rxLock = 0
    /\ wpc = <<>> /\ wjob = <<>> /\ wloc = <<>> /\ dropBacklog = -1

\* The processor and the strip variables, unused.
NoProc ==
    /\ config = <<>> /\ files = <<>> /\ fsdir = <<>> /\ inodes = <<>>
    /\ unreadable = {} /\ resultCh = <<>> /\ resultTx = 0 /\ stats = <<>>
    /\ handled = <<>> /\ touched = <<>>

NoRun == dirs = {} /\ runResult = "none" /\ exitCode = -1 /\ disk0 = <<>>

NoStrip ==
    /\ sin = <<>> /\ sres = <<>> /\ sres2 = <<>> /\ spc = "unused"
    /\ cpu = "software" /\ crcOut = <<>> /\ detected = "" /\ spaths = <<>>

InitPool ==
    /\ NoRun
    /\ NoPool /\ NoProc /\ NoStrip
    /\ mpc = "new" /\ mi = 1
    /\ items \in {[i \in 1..k |-> i] : k \in 0..MaxPoolJobs}
    /\ nthreads \in 1..MaxThreads
    /\ results = <<>> /\ ret = <<>> /\ counter = 0

\* let pool = ThreadPool::new(n);
PoolTestNew ==
    /\ mpc = "new"
    /\ ThreadPoolNew(nthreads)
    /\ mpc' = IF items = <<>> THEN "drop" ELSE "submit"
    /\ mi' = 1
    /\ UNCHANGED <<dropBacklog, mapVars, procVars, stripVars, runVars>>

\* pool.execute(move || { counter.fetch_add(1, SeqCst); }) for each of the k jobs.
PoolTestExecute ==
    /\ mpc = "submit"
    /\ mi <= Len(items)
    /\ PoolExecute([kind |-> "count", id |-> items[mi]])
    /\ mi' = mi + 1
    /\ mpc' = IF mi = Len(items) THEN "drop" ELSE "submit"
    /\ UNCHANGED <<workers, sender, rxLock, wpc, wjob, wloc, dropBacklog, mapVars,
                   procVars, stripVars, runVars>>

\* The job: one atomic fetch_add; `results` logs which job ran, in order.
CountJobRun(w) ==
    /\ wpc[w] = "run"
    /\ wjob[w].kind = "count"
    /\ counter' = counter + 1
    /\ results' = Append(results, wjob[w].id)
    /\ wjob' = [wjob EXCEPT ![w] = NoJob]
    /\ wpc' = [wpc EXCEPT ![w] = "lock"]
    /\ UNCHANGED <<workers, sender, jobs, rxLock, wloc, dropBacklog, mainVars,
                   items, nthreads, ret, procVars, stripVars, runVars>>

PoolWorker(w) ==
    \/ WorkerLock(w)
    \/ WorkerRecv(w)
    \/ WorkerRecvClosed(w)
    \/ CountJobRun(w)

PoolMain ==
    \/ PoolTestNew
    \/ PoolTestExecute
    \/ PoolDropSender
    \/ PoolJoin("done")

NextPool ==
    \/ PoolTestNew
    \/ PoolTestExecute
    \/ PoolDropSender
    \/ PoolJoin("done")
    \/ \E w \in 1..workers : WorkerLock(w)
    \/ \E w \in 1..workers : WorkerRecv(w)
    \/ \E w \in 1..workers : WorkerRecvClosed(w)
    \/ \E w \in 1..workers : CountJobRun(w)

\* OS threads: every thread that can take a step eventually takes one.
FairPool ==
    /\ WF_vars(PoolMain)
    /\ \A w \in 1..MaxThreads : WF_vars(w <= workers /\ PoolWorker(w))

SpecPool == InitPool /\ [][NextPool]_vars /\ FairPool

\* How often job id occurs in the log of jobs that ran.
TimesRun(id) == Cardinality({i \in 1..Len(results) : results[i] = id})

\* Drop has returned: channel closed, queue drained, every job ran exactly once,
\* every worker thread has ended.
Drained ==
    /\ ~sender
    /\ jobs = <<>>
    /\ \A w \in 1..workers : wpc[w] = "exited" /\ wjob[w] = NoJob
    /\ \A i \in 1..Len(items) : TimesRun(items[i]) = 1
    /\ counter = Len(items)

\* C2: dropping a ThreadPool closes the job channel; drop returns only after every
\* job executed before the drop has run and every worker has exited, no job is
\* lost, and under fair scheduling drop does return.
C2_DropDrainsAndJoins ==
    /\ [](mpc \in {"join", "done"} => ~sender)
    /\ [](mpc = "done" => Drained)
    /\ [](mpc = "drop" => <>(mpc = "done"))

\* C2 witness: drop began with at least two jobs not yet finished, and returned.
C2_Witness ==
    /\ mpc = "done"
    /\ dropBacklog >= 2
    /\ counter = MaxPoolJobs

\* How many of the k jobs of the test were passed to execute so far.
Executed == IF mpc = "new" THEN 0 ELSE IF mpc = "submit" THEN mi - 1 ELSE Len(items)

\* Where job id is: waiting in the queue, held by a worker, or already run.
TimesQueued(id) == Cardinality({i \in 1..Len(jobs) : jobs[i].id = id})
TimesHeld(id) == Cardinality({w \in 1..workers : wjob[w] # NoJob /\ wjob[w].id = id})

\* The workers that are executing a job.
Executing == {w \in 1..workers : wpc[w] = "run"}

\* C20: every job passed to execute is at each moment in exactly one place (in
\* the queue, with one worker, or run once), so it is taken by one worker and
\* run once; a job not yet passed is nowhere; at most num_threads jobs execute
\* at a time; and a worker that runs a job does not hold the queue lock.
C20_JobTakenOnce ==
    /\ \A i \in 1..Len(items) :
          TimesQueued(items[i]) + TimesHeld(items[i]) + TimesRun(items[i])
             = (IF i <= Executed THEN 1 ELSE 0)
    /\ Cardinality(Executing) <= nthreads
    /\ \A w \in 1..workers : wpc[w] = "run" => rxLock # w /\ wjob[w] # NoJob

\* Two workers execute two different jobs at the same time while a third
\* worker holds the queue lock.
C20_Witness ==
    /\ \E v, w \in Executing : v # w /\ wjob[v].id # wjob[w].id
    /\ rxLock # 0 /\ rxLock \notin Executing

(***************************************************************************)
(* parallel_map(items, f, num_threads)                                     *)
(***************************************************************************)

\* The closure of test_parallel_map: |x| x * 2.
F(x) == 2 * x

\* items.into_iter().map(f).collect(): the sequential path.
MapSeq(xs) == [i \in 1..Len(xs) |-> F(xs[i])]

\* Insert pair p into a list sorted by its first component, after the pairs
\* whose key is equal (sort_by_key is stable).
RECURSIVE InsertByKey(_, _)
InsertByKey(p, sorted) ==
    IF sorted = <<>> THEN <<p>>
    ELSE IF p[1] < Head(sorted)[1] THEN <<p>> \o sorted
    ELSE <<Head(sorted)>> \o InsertByKey(p, Tail(sorted))

RECURSIVE SortByKeyFrom(_, _)
SortByKeyFrom(pairs, sorted) ==
    IF pairs = <<>> THEN sorted
    ELSE SortByKeyFrom(Tail(pairs), InsertByKey(Head(pairs), sorted))

\* The pushed results without reordering.
KeepPushOrder(pairs) == pairs

\* results.sort_by_key(|(idx, _)| *idx)
SortByKey(pairs) == SortByKeyFrom(pairs, <<>>)

\* results.into_iter().map(|(_, r)| r).collect()
Seconds(pairs) == [i \in 1..Len(pairs) |-> pairs[i][2]]

\* The item lists tried: ascending, descending and all equal, of length k.
ItemLists(k) == {[i \in 1..k |-> i], [i \in 1..k |-> k + 1 - i], [i \in 1..k |-> 1]}

InitMap ==
    /\ NoRun
    /\ NoPool /\ NoProc /\ NoStrip
    /\ mpc = "start" /\ mi = 1
    /\ items \in UNION {ItemLists(k) : k \in 0..MaxItems}
    /\ nthreads \in 0..(MaxThreads + 1)
    /\ results = <<>> /\ ret = <<>> /\ counter = 0

\* items.is_empty(): return Vec::new().
MapEmpty ==
    /\ mpc = "start"
    /\ items = <<>>
    /\ ret' = <<>>
    /\ mpc' = "done"
    /\ UNCHANGED <<poolVars, wloc, dropBacklog, mi, items, nthreads, results,
                   counter, procVars, stripVars, runVars>>

\* items.len() <= 2 || num_threads <= 1: process sequentially.
MapSmall ==
    /\ mpc = "start"
    /\ items # <<>>
    /\ Len(items) <= 2 \/ nthreads <= 1
    /\ ret' = MapSeq(items)
    /\ counter' = Len(items)
    /\ mpc' = "done"
    /\ UNCHANGED <<poolVars, wloc, dropBacklog, mi, items, nthreads, results,
                   procVars, stripVars, runVars>>

\* Otherwise: ThreadPool::new(num_threads.min(items.len())).
MapNewPool ==
    /\ mpc = "start"
    /\ items # <<>>
    /\ ~(Len(items) <= 2 \/ nthreads <= 1)
    /\ ThreadPoolNew(Min(nthreads, Len(items)))
    /\ mpc' = "submit"
    /\ mi' = 1
    /\ UNCHANGED <<dropBacklog, mapVars, procVars, stripVars, runVars>>

\* for (index, item) in items.into_iter().enumerate() { pool.execute(..) }
MapExecute ==
    /\ mpc = "submit"
    /\ mi <= Len(items)
    /\ PoolExecute([kind |-> "map", index |-> mi - 1, item |-> items[mi]])
    /\ mi' = mi + 1
    /\ mpc' = IF mi = Len(items) THEN "drop" ELSE "submit"
    /\ UNCHANGED <<workers, sender, rxLock, wpc, wjob, wloc, dropBacklog, mapVars,
                   procVars, stripVars, runVars>>

\* The job closure, first statement: let result = f(item).
MapJobCall(w) ==
    /\ wpc[w] = "run"
    /\ wjob[w].kind = "map"
    /\ wloc' = [wloc EXCEPT ![w] = [kind |-> "map", result |-> F(wjob[w].item)]]
    /\ counter' = counter + 1
    /\ wpc' = [wpc EXCEPT ![w] = "push"]
    /\ UNCHANGED <<workers, sender, jobs, rxLock, wjob, dropBacklog, mainVars,
                   items, nthreads, results, ret, procVars, stripVars, runVars>>

\* The job closure, the rest: results.lock() and push((index, result)); the
\* mutex makes the push one step.  The closure ends, the worker loops.
MapJobPush(w) ==
    /\ wpc[w] = "push"
    /\ results' = Append(results, <<wjob[w].index, wloc[w].result>>)
    /\ wjob' = [wjob EXCEPT ![w] = NoJob]
    /\ wloc' = [wloc EXCEPT ![w] = NoLoc]
    /\ wpc' = [wpc EXCEPT ![w] = "lock"]
    /\ UNCHANGED <<workers, sender, jobs, rxLock, dropBacklog, mainVars,
                   items, nthreads, ret, counter, procVars, stripVars, runVars>>

\* After drop(pool): unwrap the results, sort by index, strip the indices.
MapCollect ==
    /\ mpc = "collect"
    /\ ret' = Seconds(SortByKey(results))
    /\ mpc' = "done"
    /\ UNCHANGED <<poolVars, wloc, dropBacklog, mi, items, nthreads, results,
                   counter, procVars, stripVars, runVars>>

NextMap ==
    \/ MapEmpty
    \/ MapSmall
    \/ MapNewPool
    \/ MapExecute
    \/ PoolDropSender
    \/ PoolJoin("collect")
    \/ MapCollect
    \/ \E w \in 1..workers : WorkerLock(w)
    \/ \E w \in 1..workers : WorkerRecv(w)
    \/ \E w \in 1..workers : WorkerRecvClosed(w)
    \/ \E w \in 1..workers : MapJobCall(w)
    \/ \E w \in 1..workers : MapJobPush(w)

SpecMap == InitMap /\ [][NextMap]_vars

\* C3: parallel_map returns a vector as long as items whose i-th element is
\* f(items[i]), for every item list, every thread count and every order in which
\* the workers push their results.
C3_MapKeepsOrder ==
    mpc = "done" =>
        /\ Len(ret) = Len(items)
        /\ \A i \in 1..Len(items) : ret[i] = F(items[i])

\* C3 witness: the pool path returned, and the workers had pushed their results
\* in an order other than the order of submission.
C3_Witness ==
    /\ mpc = "done"
    /\ workers >= 2
    /\ Len(results) = Len(items)
    /\ \E i \in 1..Len(results) : results[i][1] # i - 1
    /\ \E i, j \in 1..Len(items) : items[i] # items[j]

(***************************************************************************)
(* parallel_for_each(items, process, callback, num_threads)                *)
(***************************************************************************)

\* The variables parallel_for_each leaves alone.  It uses `counter` for the
\* number of process calls completed, `results` for the indices processed,
\* `ret` for the callbacks made, `resultCh` / `resultTx` for the done channel
\* and its senders, and `mi` for its loop index and for `completed`.
eachFixed == <<items, nthreads, config, files, fsdir, inodes, unreadable, stats,
               handled, touched, stripVars>>

InitEach ==
    /\ NoRun
    /\ NoPool /\ NoProc /\ NoStrip
    /\ mpc = "start" /\ mi = 1
    /\ items \in UNION {ItemLists(k) : k \in 0..MaxItems}
    /\ nthreads \in 0..(MaxThreads + 1)
    /\ results = <<>> /\ ret = <<>> /\ counter = 0

\* items.is_empty(): return.
EachEmpty ==
    /\ mpc = "start"
    /\ items = <<>>
    /\ mpc' = "done"
    /\ UNCHANGED <<poolVars, wloc, dropBacklog, mi, results, ret, counter,
                   resultCh, resultTx, eachFixed, runVars>>

\* items.len() <= 2 || num_threads <= 1: the sequential loop is entered.
EachSmall ==
    /\ mpc = "start"
    /\ items # <<>>
    /\ Len(items) <= 2 \/ nthreads <= 1
    /\ mpc' = "process"
    /\ mi' = 1
    /\ UNCHANGED <<poolVars, wloc, dropBacklog, results, ret, counter,
                   resultCh, resultTx, eachFixed, runVars>>

\* process(item) in the sequential loop
EachSeqProcess ==
    /\ mpc = "process"
    /\ counter' = counter + 1
    /\ results' = Append(results, mi)
    /\ mpc' = "callback"
    /\ UNCHANGED <<poolVars, wloc, dropBacklog, mi, ret, resultCh, resultTx, eachFixed, runVars>>

\* callback() in the sequential loop; after the last item: return.
EachSeqCallback ==
    /\ mpc = "callback"
    /\ ret' = Append(ret, mi)
    /\ mi' = mi + 1
    /\ mpc' = IF mi = Len(items) THEN "done" ELSE "process"
    /\ UNCHANGED <<poolVars, wloc, dropBacklog, results, counter, resultCh,
                   resultTx, eachFixed, runVars>>

\* let (done_tx, done_rx) = mpsc::channel(); let pool = ThreadPool::new(min(..));
EachNewPool ==
    /\ mpc = "start"
    /\ items # <<>>
    /\ ~(Len(items) <= 2 \/ nthreads <= 1)
    /\ ThreadPoolNew(Min(nthreads, Len(items)))
    /\ resultCh' = <<>>
    /\ resultTx' = 1
    /\ mpc' = "submit"
    /\ mi' = 1
    /\ UNCHANGED <<dropBacklog, results, ret, counter, eachFixed, runVars>>

\* for item in items { let done_tx = done_tx.clone(); pool.execute(..) }
EachExecute ==
    /\ mpc = "submit"
    /\ mi <= Len(items)
    /\ resultTx' = resultTx + 1
    /\ PoolExecute([kind |-> "each", index |-> mi, item |-> items[mi]])
    /\ mi' = mi + 1
    /\ mpc' = IF mi = Len(items) THEN "droptx" ELSE "submit"
    /\ UNCHANGED <<workers, sender, rxLock, wpc, wjob, wloc, dropBacklog, results,
                   ret, counter, resultCh, eachFixed, runVars>>

\* drop(done_tx); let mut completed = 0;
EachDropTx ==
    /\ mpc = "droptx"
    /\ resultTx' = resultTx - 1
    /\ mi' = 0
    /\ mpc' = "wait"
    /\ UNCHANGED <<poolVars, wloc, dropBacklog, results, ret, counter, resultCh,
                   eachFixed, runVars>>

\* A loop that stops one completion early.
CompletedAlmostAll(completed) == completed + 1 >= Len(items)

\* The loop condition `completed < total` has become false.
CompletedAll(completed) == completed >= Len(items)

\* One turn of `while completed < total`: done_rx.recv() returns a completion
\* (completed += 1; callback(); then the loop condition), or Err once no
\* message and no sender is left (break), which takes a job that ended without
\* sending.
EachRecv ==
    /\ mpc = "wait"
    /\ IF resultCh # <<>>
       THEN /\ resultCh' = Tail(resultCh)
            /\ mi' = mi + 1
            /\ ret' = Append(ret, mi + 1)
            /\ mpc' = IF CompletedAll(mi + 1) THEN "drop" ELSE "wait"
       ELSE /\ resultTx = 0
            /\ mpc' = "drop"
            /\ UNCHANGED <<resultCh, mi, ret, runVars>>
    /\ UNCHANGED <<poolVars, wloc, dropBacklog, results, counter, resultTx, eachFixed, runVars>>

\* The job closure, first statement: process(item).
EachJobProcess(w) ==
    /\ wpc[w] = "run"
    /\ wjob[w].kind = "each"
    /\ counter' = counter + 1
    /\ results' = Append(results, wjob[w].index)
    /\ wpc' = [wpc EXCEPT ![w] = "signal"]
    /\ UNCHANGED <<workers, sender, jobs, rxLock, wjob, wloc, dropBacklog, mainVars,
                   ret, resultCh, resultTx, eachFixed, runVars>>

\* The job closure, the rest: let _ = done_tx.send(()); the closure ends and
\* its sender is dropped.
EachJobSend(w) ==
    /\ wpc[w] = "signal"
    /\ resultCh' = Append(resultCh, wjob[w].index)
    /\ resultTx' = resultTx - 1
    /\ wjob' = [wjob EXCEPT ![w] = NoJob]
    /\ wpc' = [wpc EXCEPT ![w] = "lock"]
    /\ UNCHANGED <<workers, sender, jobs, rxLock, wloc, dropBacklog, mainVars,
                   results, ret, counter, eachFixed, runVars>>

NextEach ==
    \/ EachEmpty
    \/ EachSmall
    \/ EachSeqProcess
    \/ EachSeqCallback
    \/ EachNewPool
    \/ EachExecute
    \/ EachDropTx
    \/ EachRecv
    \/ PoolDropSender
    \/ PoolJoin("done")
    \/ \E w \in 1..workers : WorkerLock(w)
    \/ \E w \in 1..workers : WorkerRecv(w)
    \/ \E w \in 1..workers : WorkerRecvClosed(w)
    \/ \E w \in 1..workers : EachJobProcess(w)
    \/ \E w \in 1..workers : EachJobSend(w)

SpecEach == InitEach /\ [][NextEach]_vars

\* How often process was called for the item at index i.
TimesProcessed(i) == Cardinality({k \in 1..Len(results) : results[k] = i})

\* C19: process is called at most once per item and callback at most
\* len(items) times, the callbacks made never outnumber the process calls
\* completed, and when parallel_for_each has returned process ran exactly once
\* for every item and callback exactly len(items) times.
C19_ForEachOncePerItem ==
    /\ \A i \in 1..Len(items) : TimesProcessed(i) <= 1
    /\ Len(ret) <= counter
    /\ Len(ret) <= Len(items)
    /\ mpc = "done" =>
          /\ \A i \in 1..Len(items) : TimesProcessed(i) = 1
          /\ Len(ret) = Len(items)
          /\ counter = Len(items)

\* The pool path has returned: three items on at least two workers, and the
\* items were not processed in the order they were submitted.
C19_Witness ==
    /\ mpc = "done"
    /\ workers >= 2 /\ Len(items) = 3 /\ Len(ret) = 3
    /\ results # <<1, 2, 3>>

(***************************************************************************)
(* strip_metadata applied to a buffer and then to its own output.  The     *)
(* inputs are built the way the codecs' test builders build theirs.        *)
(***************************************************************************)

\* ---- bounds of the inputs ----
\* the largest number of essential (non-metadata, inline) entries of a TIFF sample
MaxEssential == 4
\* the length of the long strip of a TIFF sample
LongStrip == 64

\* ImageWidth, ImageLength, Compression, PhotometricInterpretation,
\* BitsPerSample, SamplesPerPixel
ESSENTIAL_TAGS == <<256, 257, 259, 262, 258, 277>>
MAKE == 271
SOFTWARE == 305
X_RESOLUTION == 282

\* The 12 bytes of one IFD entry.
EntryBytes(bo, tag, ft, count, value) ==
    WriteU16(bo, tag) \o WriteU16(bo, ft) \o WriteU32(bo, count) \o value

RECURSIVE EssentialEntries(_, _, _)
EssentialEntries(bo, i, n) ==
    IF i > n THEN <<>>
    ELSE EntryBytes(bo, ESSENTIAL_TAGS[i], 3, 1, WriteU32(bo, 1))
         \o EssentialEntries(bo, i + 1, n)

\* Make = "Test" (ASCII, count 5) and Software = "PMI\0" (ASCII, count 4), as
\* create_tiff_with_metadata writes them.
MetaEntry(bo, tag) ==
    IF tag = MAKE THEN EntryBytes(bo, MAKE, 2, 5, <<84, 101, 115, 116>>)
    ELSE EntryBytes(bo, SOFTWARE, 2, 4, <<80, 77, 73, 0>>)

RECURSIVE MetaEntries(_, _)
MetaEntries(bo, meta) ==
    IF meta = <<>> THEN <<>>
    ELSE MetaEntry(bo, Head(meta)) \o MetaEntries(bo, Tail(meta))

\* The strip of a sample: its first byte is the 0xFF of the builders.
StripBytes(n) == [i \in 1..n |-> 255 - ((i - 1) % 16)]

\* A single-IFD TIFF laid out as create_minimal_tiff and
\* create_tiff_with_metadata lay theirs out: header, the IFD at offset 8 with
\* nEss essential entries, StripOffsets, StripByteCounts, an optional
\* XResolution (a RATIONAL, stored out of line after the strip) and the
\* metadata entries, next-IFD pointer 0, the strip, the XResolution value.
TiffSample(bo, nEss, meta, xres, stripLen) ==
    LET n == nEss + 2 + (IF xres THEN 1 ELSE 0) + Len(meta)
        stripOff == 8 + 2 + 12 * n + 4
    IN  (IF bo = "Little" THEN LITTLE_ENDIAN ELSE BIG_ENDIAN)
        \o WriteU16(bo, 42) \o WriteU32(bo, 8)
        \o WriteU16(bo, n)
        \o EssentialEntries(bo, 1, nEss)
        \o EntryBytes(bo, STRIP_OFFSETS, 4, 1, WriteU32(bo, stripOff))
        \o EntryBytes(bo, STRIP_BYTE_COUNTS, 4, 1, WriteU32(bo, stripLen))
        \o (IF xres
            THEN EntryBytes(bo, X_RESOLUTION, 5, 1, WriteU32(bo, stripOff + stripLen))
            ELSE <<>>)
        \o MetaEntries(bo, meta)
        \o WriteU32(bo, 0)
        \o StripBytes(stripLen)
        \o (IF xres THEN WriteU32(bo, 72) \o WriteU32(bo, 1) ELSE <<>>)

TiffSamples ==
    {TiffSample(bo, nEss, meta, xres, stripLen) :
        bo \in {"Little", "Big"}, nEss \in {0, MaxEssential},
        meta \in {<<>>, <<MAKE>>, <<MAKE, SOFTWARE>>},
        xres \in BOOLEAN, stripLen \in {1, LongStrip}}

\* create_minimal_tiff() and create_tiff_with_metadata()
CreateMinimalTiff == TiffSample("Little", 4, <<>>, FALSE, 1)
CreateTiffWithMetadata == TiffSample("Little", 4, <<MAKE, SOFTWARE>>, FALSE, 1)

\* A header whose first-IFD offset is 0 (no IFD), padded to 12 bytes; and a
\* TIFF whose only IFD names itself as the next IFD.
TiffNoIfd == <<73, 73, 42, 0, 0, 0, 0, 0, 0, 0, 0, 0>>
TiffCyclic == <<73, 73, 42, 0, 8, 0, 0, 0, 0, 0, 8, 0, 0, 0>>

\* A JPEG segment: FF, marker, big-endian length (payload + 2), payload.
JpegSegment(marker, payload) ==
    <<MARKER_PREFIX, marker>> \o WriteU16("Big", Len(payload) + 2) \o payload

JFIF == JpegSegment(224, <<74, 70, 73, 70, 0, 1, 1, 0, 0, 1, 0, 1, 0, 0>>)
EXIF == JpegSegment(225, <<69, 120, 105, 102, 0, 0, 84, 101, 115, 116>>)
COM == JpegSegment(254, <<84, 101, 115, 116>>)
DQT == JpegSegment(219, <<0, 8, 6, 6, 7>>)
\* SOS header, entropy-coded data with a stuffed FF 00 and an RST0, then EOI
SCAN ==
    JpegSegment(SOS, <<1, 1, 0, 0, 63, 0>>)
    \o <<251, 211, 255, 0, 40, 255, 208, 162>> \o <<MARKER_PREFIX, EOI>>

JpegOnlyExif == <<MARKER_PREFIX, SOI>> \o EXIF \o <<MARKER_PREFIX, EOI>>

\* Segments of the other kinds: APP2 (ICC), APP13 (IPTC), APP14 (Adobe), APP15,
\* SOF0, DHT, DRI.
APP2 == JpegSegment(226, <<73, 67, 67>>)
APP13 == JpegSegment(237, <<80, 83>>)
APP14 == JpegSegment(238, <<65, 100, 111, 98, 101>>)
APP15 == JpegSegment(239, <<1>>)
SOF0 == JpegSegment(192, <<8, 0, 1, 0, 1, 1, 1, 17, 0>>)
DHT == JpegSegment(196, <<0, 1, 2>>)
DRI == JpegSegment(221, <<0, 4>>)
\* A scan that is followed by further segments: SOS header, entropy-coded data
\* with FF 00 and RST1, no EOI.
SCAN_OPEN == JpegSegment(SOS, <<1, 1, 0, 0, 63, 0>>) \o <<17, 255, 0, 255, 209, 34>>

\* A two-scan JPEG with segments of every kind.
JpegFull ==
    <<MARKER_PREFIX, SOI>> \o JFIF \o APP2 \o EXIF \o APP13 \o APP14 \o APP15 \o COM
        \o DQT \o SOF0 \o DHT \o DRI \o SCAN_OPEN \o DHT \o SCAN

\* Bytes that are no marker after the EOI that ends the scan data.
JpegTrailing == <<MARKER_PREFIX, SOI>> \o JFIF \o DQT \o SCAN \o <<1, 2, 3>>

\* Segments and a second EOI after the EOI that ends the scan data.
JpegTwoEoi ==
    <<MARKER_PREFIX, SOI>> \o JFIF \o DQT \o SCAN \o EXIF \o DQT \o <<MARKER_PREFIX, EOI>>

\* Bytes that are no marker after an EOI that stands where a segment starts.
JpegEoiThenJunk == <<MARKER_PREFIX, SOI>> \o JFIF \o DQT \o <<MARKER_PREFIX, EOI, 1, 2, 3>>

\* Scan data that runs to the end of the buffer, no EOI.
JpegNoEoi == <<MARKER_PREFIX, SOI>> \o JFIF \o DQT \o SCAN_OPEN

JpegSamples ==
    {JpegTrailing, JpegTwoEoi, JpegEoiThenJunk, JpegNoEoi,
     <<MARKER_PREFIX, SOI>> \o JFIF \o DQT \o SCAN,
     <<MARKER_PREFIX, SOI>> \o JFIF \o EXIF \o COM \o DQT \o SCAN,
     <<MARKER_PREFIX, SOI>> \o EXIF \o DQT \o SCAN,
     \* every segment is metadata
     JpegOnlyExif,
     <<MARKER_PREFIX, SOI>> \o EXIF \o COM \o <<MARKER_PREFIX, EOI>>,
     JpegFull,
     <<MARKER_PREFIX, SOI>> \o APP14 \o COM \o SCAN_OPEN \o APP13 \o SCAN,
     \* a segment that runs past the end of the buffer
     <<MARKER_PREFIX, SOI>> \o JFIF \o <<MARKER_PREFIX, 219, 0, 67, 0, 8>>}

\* A PNG chunk with the CRC-32 (ISO) of its type and data.
PngChunk(ctype, d) ==
    WriteU32("Big", Len(d)) \o ctype \o d \o ToBeBytes(ComputeArmCrc32(ctype \o d))

IHDR == PngChunk(TYPE_IHDR, <<0, 0, 0, 1, 0, 0, 0, 1, 8, 0, 0, 0, 0>>)
IDAT == PngChunk(<<73, 68, 65, 84>>, <<120, 156, 99, 0, 1>>)
IEND == PngChunk(TYPE_IEND, <<>>)
TEXT == PngChunk(<<116, 69, 88, 116>>, <<65, 0, 66>>)
TIME == PngChunk(<<116, 73, 77, 69>>, <<7, 232, 1, 1, 0, 0, 0>>)

PHYS == PngChunk(<<112, 72, 89, 115>>, <<0, 0, 11, 19, 0, 0, 11, 19, 1>>)
ITXT == PngChunk(<<105, 84, 88, 116>>, <<65, 0, 0, 0, 0, 0, 66>>)
ZTXT == PngChunk(<<122, 84, 88, 116>>, <<65, 0, 0, 120>>)
EXIF_PNG == PngChunk(<<101, 88, 73, 102>>, <<77, 77, 0, 42, 0, 0, 0, 8>>)
\* An IDAT chunk whose stored CRC is not the CRC of its type and data.
IDAT_STALE == WriteU32("Big", 2) \o <<73, 68, 65, 84>> \o <<120, 156>> \o <<0, 0, 0, 0>>

PngSamples ==
    {PNG_SIGNATURE \o IHDR \o IDAT \o IEND,
     PNG_SIGNATURE \o IHDR \o TEXT \o IDAT \o TIME \o IEND,
     \* no IEND
     PNG_SIGNATURE \o IHDR \o IDAT,
     \* no IHDR
     PNG_SIGNATURE \o IDAT \o IEND,
     \* every metadata type, an ancillary chunk that is kept, a stale CRC,
     \* and chunks after the first IEND
     PNG_SIGNATURE \o IHDR \o PHYS \o ITXT \o ZTXT \o EXIF_PNG \o IDAT_STALE
         \o TEXT \o IEND \o IDAT \o IEND,
     \* the last chunk stops before its CRC
     PNG_SIGNATURE \o IHDR \o IDAT \o <<0, 0, 0, 0>> \o TYPE_IEND}

\* Logical screen descriptor without a colour table, one 1x1 image, trailer.
GIF_SCREEN == <<1, 0, 1, 0, 0, 0, 0>>
GIF_IMAGE == <<IMAGE, 0, 0, 0, 0, 1, 0, 1, 0, 0, 2, 2, 68, 1, 0>>
GIF_COMMENT == <<EXTENSION, 254, 4, 84, 101, 115, 116, 0>>
GIF_GCE == <<EXTENSION, 249, 4, 0, 0, 0, 0, 0>>

\* The looping extension: "NETSCAPE2.0", then the loop-count sub-block.
GIF_NETSCAPE == <<EXTENSION, 255, 11>> \o NETSCAPE_ID \o <<3, 1, 0, 0, 0>>
\* An application extension of "XMP DataXMP".
GIF_XMP ==
    <<EXTENSION, 255, 11, 88, 77, 80, 32, 68, 97, 116, 97, 88, 77, 80>> \o <<2, 60, 62, 0>>
\* A comment of two sub-blocks, the second one holding the bytes 21 FF 0B.
GIF_COMMENT_LONG == <<EXTENSION, 254, 2, 72, 105, 3, 33, 255, 11, 0>>
GIF_PLAIN_TEXT ==
    <<EXTENSION, 1, 12, 0, 0, 0, 0, 1, 0, 1, 0, 8, 8, 1, 0, 2, 72, 105, 0>>
GIF_UNKNOWN_EXT == <<EXTENSION, 171, 2, 1, 2, 0>>
\* An image with a local colour table of two entries.
GIF_IMAGE_LCT ==
    <<IMAGE, 0, 0, 0, 0, 1, 0, 1, 0, 128>> \o <<0, 0, 0, 255, 255, 255>> \o <<2, 2, 68, 1, 0>>

GifFull ==
    GIF89A \o GIF_SCREEN \o GIF_NETSCAPE \o GIF_XMP \o GIF_COMMENT_LONG \o GIF_GCE
    \o GIF_IMAGE_LCT \o GIF_PLAIN_TEXT \o GIF_UNKNOWN_EXT \o GIF_COMMENT \o GIF_IMAGE
    \o <<TRAILER>>

\* An image and a byte behind the trailer.
GifAfterTrailer ==
    GIF89A \o GIF_SCREEN \o GIF_IMAGE \o <<TRAILER>> \o GIF_IMAGE \o <<TRAILER, 7>>

\* No trailer, a comment as the only block, and a screen descriptor whose last
\* byte (the pixel aspect ratio) is 3B.
GifAspect59 == GIF89A \o <<1, 0, 1, 0, 0, 0, 59>> \o GIF_COMMENT

\* No trailer, no block, and a global colour table whose last byte is 3B.
GifTable59 == GIF89A \o <<1, 0, 1, 0, 128, 0, 0>> \o <<0, 0, 0, 255, 255, 59>>

GifSamples ==
    {GifAfterTrailer, GifAspect59, GifTable59,
     GIF89A \o GIF_SCREEN \o GIF_IMAGE \o <<TRAILER>>,
     GifFull,
     \* the local colour table runs past the end of the buffer
     GIF89A \o GIF_SCREEN \o <<IMAGE, 0, 0, 0, 0, 1, 0, 1, 0, 135>> \o <<0, 0, 0>>,
     GIF89A \o GIF_SCREEN \o GIF_COMMENT \o GIF_GCE \o GIF_IMAGE \o <<TRAILER>>,
     GIF87A \o GIF_SCREEN \o GIF_IMAGE,
     \* sub-blocks that run past the end of the buffer
     GIF89A \o GIF_SCREEN \o <<EXTENSION, 254, 9, 84>>}

\* A RIFF chunk: fourcc, little-endian size, data, a pad byte when the size is odd.
RiffChunk(fourcc, d) ==
    fourcc \o WriteU32("Little", Len(d)) \o d \o (IF Len(d) % 2 # 0 THEN <<0>> ELSE <<>>)

WebpFile(body) == RIFF \o WriteU32("Little", 4 + Len(body)) \o WEBP \o body

VP8_CHUNK == RiffChunk(FOURCC_VP8, <<0, 0, 0, 157, 1, 42>>)
\* flags: EXIF (0x08) and XMP (0x20) present, alpha (0x10)
VP8X_CHUNK == RiffChunk(FOURCC_VP8X, <<56, 0, 0, 0, 0, 0, 0, 0, 0, 0>>)
EXIF_CHUNK == RiffChunk(FOURCC_EXIF, <<69, 120, 105>>)
XMP_CHUNK == RiffChunk(FOURCC_XMP, <<60, 120, 62, 32>>)

VP8L_CHUNK == RiffChunk(FOURCC_VP8L, <<47, 0, 0, 0, 0>>)
ICCP_CHUNK == RiffChunk(<<73, 67, 67, 80>>, <<1, 2, 3>>)
\* An "ALPH" chunk of odd size at the end of the file, its pad byte missing.
ALPH_UNPADDED == <<65, 76, 80, 72>> \o WriteU32("Little", 1) \o <<7>>

\* Every kind of chunk, under a RIFF size field that is out of date.
WebpFull ==
    RIFF \o <<0, 0, 0, 0>> \o WEBP \o VP8X_CHUNK \o ICCP_CHUNK \o EXIF_CHUNK
    \o VP8L_CHUNK \o XMP_CHUNK \o ALPH_UNPADDED

\* VP8X chunks of two, of four and of no data bytes; every flag bit is set in
\* the first byte of the first two.
VP8X_TWO == RiffChunk(FOURCC_VP8X, <<255, 7>>)
VP8X_FOUR == RiffChunk(FOURCC_VP8X, <<255, 1, 2, 3>>)
VP8X_EMPTY == RiffChunk(FOURCC_VP8X, <<>>)

WebpShortVp8x == WebpFile(VP8X_TWO \o VP8_CHUNK \o EXIF_CHUNK)
WebpFlagsVp8x == WebpFile(VP8X_FOUR \o VP8_CHUNK \o XMP_CHUNK \o VP8X_EMPTY)

WebpSamples ==
    {WebpShortVp8x, WebpFlagsVp8x,
     WebpFile(VP8_CHUNK),
     WebpFull,
     \* three stray bytes behind the last chunk
     WebpFile(VP8_CHUNK \o EXIF_CHUNK) \o <<1, 2, 3>>,
     \* a chunk whose size points past the end of the buffer
     WebpFile(VP8_CHUNK) \o FOURCC_EXIF \o <<9, 0, 0, 0, 1>>,
     WebpFile(VP8X_CHUNK \o VP8_CHUNK \o EXIF_CHUNK \o XMP_CHUNK),
     \* no image chunk
     WebpFile(EXIF_CHUNK)}

\* Twelve bytes of no known format.
UnknownBytes == <<0, 0, 0, 0, 0, 0, 0, 0, 0, 0, 0, 0>>

\* TIFF buffers whose fields point past their end.
\* Two IFDs: ImageWidth and Make in the first, at offset 8, ImageWidth in the
\* second, at offset 38.
TiffTwoIfds ==
    LITTLE_ENDIAN \o WriteU16("Little", 42) \o WriteU32("Little", 8)
    \o WriteU16("Little", 2)
    \o EntryBytes("Little", 256, 3, 1, <<16, 0, 0, 0>>)
    \o EntryBytes("Little", 271, 2, 4, <<97, 98, 99, 0>>)
    \o WriteU32("Little", 38)
    \o WriteU16("Little", 1)
    \o EntryBytes("Little", 256, 3, 1, <<8, 0, 0, 0>>)
    \o WriteU32("Little", 0)

TiffMalformed ==
    {\* five entries announced, none present
     <<73, 73, 42, 0, 8, 0, 0, 0, 5, 0, 0, 0, 0, 0>>,
     \* the first IFD lies behind the end of the buffer
     <<73, 73, 42, 0, 200, 0, 0, 0, 0, 0, 0, 0>>,
     \* the next-IFD pointer is cut short
     <<77, 77, 0, 42, 0, 0, 0, 8, 0, 0, 0, 0>>,
     \* StripOffsets and StripByteCounts, three LONGs each, at offsets 1000 and 2000
     <<73, 73, 42, 0, 8, 0, 0, 0, 2, 0>>
         \o <<17, 1, 4, 0, 3, 0, 0, 0, 232, 3, 0, 0>>
         \o <<23, 1, 4, 0, 3, 0, 0, 0, 208, 7, 0, 0>> \o <<0, 0, 0, 0>>,
     \* one strip at offset 30 of 500 bytes in a buffer of 38
     <<73, 73, 42, 0, 8, 0, 0, 0, 2, 0>>
         \o <<17, 1, 4, 0, 1, 0, 0, 0, 30, 0, 0, 0>>
         \o <<23, 1, 4, 0, 1, 0, 0, 0, 244, 1, 0, 0>> \o <<0, 0, 0, 0>>}

StripInputs ==
    TiffSamples \cup {CreateMinimalTiff, CreateTiffWithMetadata, TiffNoIfd, TiffCyclic}
    \cup TiffMalformed \cup {TiffTwoIfds}
    \cup JpegSamples \cup PngSamples
    \cup GifSamples \cup WebpSamples \cup {UnknownBytes}

\* The builds: target architecture and CPU feature that crc32::compute selects by.
Cpus == {"software", "x86_64+sse4.2", "aarch64+crc"}

NoResult == [kind |-> "none", data |-> <<>>, bytes_removed |-> 0]

InitStrip ==
    /\ NoRun
    /\ NoPool /\ NoProc
    /\ mpc = "unused" /\ mi = 0
    /\ items = <<>> /\ nthreads = 0 /\ results = <<>> /\ ret = <<>> /\ counter = 0
    /\ sin \in StripInputs
    /\ cpu \in Cpus
    /\ sres = NoResult /\ sres2 = NoResult
    /\ spc = "start"
    /\ crcOut = <<>> /\ detected = "" /\ spaths = <<>>

\* let y = strip_metadata(&x, path): returns Ok or Err, or never returns.
StripFirst ==
    /\ spc = "start"
    /\ LET r == StripMetadata(sin)
       IN  IF r.kind = "Diverges"
           THEN spc' = "hung" /\ sres' = sres
           ELSE spc' = "once" /\ sres' = r
    /\ UNCHANGED <<poolVars, wloc, dropBacklog, mainVars, mapVars, procVars,
                   sin, sres2, cpu, crcOut, detected, spaths, runVars>>

\* strip_metadata(&y.data, path) on the output of a successful first call.
StripSecond ==
    /\ spc = "once"
    /\ sres.kind = "Ok"
    /\ LET r == StripMetadata(sres.data)
       IN  IF r.kind = "Diverges"
           THEN spc' = "hung" /\ sres2' = sres2
           ELSE spc' = "twice" /\ sres2' = r
    /\ UNCHANGED <<poolVars, wloc, dropBacklog, mainVars, mapVars, procVars,
                   sin, sres, cpu, crcOut, detected, spaths, runVars>>

NextStrip ==
    \/ StripFirst
    \/ StripSecond

SpecStrip == InitStrip /\ [][NextStrip]_vars

(***************************************************************************)
(* processor.rs: Processor::run_parallel over a batch of files, the jobs   *)
(* running process_file_standalone on the pool's workers.                  *)
(***************************************************************************)

\* ---- bounds of the batch ----
\* the largest number of files of a batch
MaxFiles == 3

\* A path: directory, file stem, extension.
Path(dir, stem, ext) == [dir |-> dir, stem |-> stem, ext |-> ext]

\* Path::with_extension(ext)
WithExtension(p, ext) == [p EXCEPT !.ext = ext]

\* config.output_dir = None
NoDir == "none"

\* Processor::get_output_path(config, input)
GetOutputPath(cfg, input) ==
    IF cfg.in_place THEN input
    ELSE IF cfg.output_dir # NoDir THEN [input EXCEPT !.dir = cfg.output_dir]
    ELSE [input EXCEPT !.stem = input.stem \o "_clean"]

\* The files the batches are made of, and their bytes on disk.
PhotoJpg == Path("d1", "a", "jpg")
PhotoPng == Path("d1", "a", "png")
OtherJpg == Path("d2", "a", "jpg")
BrokenJpg == Path("d1", "b", "jpg")
LockedJpg == Path("d1", "c", "jpg")
ExtraJpg == Path("d1", "e", "jpg")

JpegWithExif == <<MARKER_PREFIX, SOI>> \o JFIF \o EXIF \o COM \o DQT \o SCAN
JpegPlain == <<MARKER_PREFIX, SOI>> \o JFIF \o DQT \o SCAN
JpegTruncated == <<MARKER_PREFIX, SOI>> \o JFIF \o <<MARKER_PREFIX, 219, 0, 67, 0, 8>>
PngWithText == PNG_SIGNATURE \o IHDR \o TEXT \o IDAT \o TIME \o IEND

Content(p) ==
    IF p = PhotoPng THEN PngWithText
    ELSE IF p = OtherJpg THEN JpegPlain
    ELSE IF p = BrokenJpg THEN JpegTruncated
    ELSE JpegWithExif

\* The batches collect_files can return: distinct paths with supported
\* extensions.  LockedJpg is a file the process may not read.
BatchList ==
    {<<PhotoJpg, PhotoPng>>, <<PhotoJpg, OtherJpg>>, <<PhotoJpg, BrokenJpg>>,
     <<OtherJpg, LockedJpg>>,
     <<PhotoJpg, PhotoPng, BrokenJpg>>, <<PhotoJpg, OtherJpg, LockedJpg>>,
     <<PhotoPng, BrokenJpg, LockedJpg>>,
     <<PhotoJpg, PhotoPng, BrokenJpg, LockedJpg>>,
     <<PhotoJpg, OtherJpg, BrokenJpg, ExtraJpg>>}

Batches == {b \in BatchList : Len(b) <= MaxFiles}

\* The flag combinations of Config the batch runs under.
MkConfig(in_place, output_dir, force, dry_run) ==
    [in_place |-> in_place, output_dir |-> output_dir, force |-> force,
     dry_run |-> dry_run]

Configs ==
    {MkConfig(TRUE, NoDir, FALSE, FALSE),
     MkConfig(FALSE, "out", FALSE, FALSE),
     MkConfig(FALSE, "out", TRUE, FALSE),
     MkConfig(FALSE, NoDir, FALSE, FALSE),
     MkConfig(FALSE, NoDir, FALSE, TRUE)}

\* ProcessingStats::new()
NewStats == [processed |-> 0, failed |-> 0, skipped |-> 0, metadata_removed |-> 0]

\* An add_success that stores the bytes of the last file instead of adding them.
AddSuccessOverwrite(st, metadata_bytes) ==
    [st EXCEPT !.processed = @ + 1, !.metadata_removed = metadata_bytes]

\* ProcessingStats::add_success(metadata_bytes)
AddSuccess(st, metadata_bytes) ==
    [st EXCEPT !.processed = @ + 1, !.metadata_removed = @ + metadata_bytes]

\* ProcessingStats::add_failure()
AddFailure(st) == [st EXCEPT !.failed = @ + 1]

\* ProcessingStats::add_skipped()
AddSkipped(st) == [st EXCEPT !.skipped = @ + 1]

\* Processor::handle_result(result): the statistics after it.
HandleResult(st, r) ==
    IF r.kind = "Success" THEN AddSuccess(st, r.bytes_removed)
    ELSE IF r.kind = "Skipped" THEN AddSkipped(st)
    ELSE AddFailure(st)

\* ProcessResult::Success { input, output, bytes_removed }
Success(idx, bytes_removed) ==
    [kind |-> "Success", idx |-> idx, bytes_removed |-> bytes_removed, error |-> ""]

\* ProcessResult::Failed { path, error }
Failed(idx, error) ==
    [kind |-> "Failed", idx |-> idx, bytes_removed |-> 0, error |-> error]

\* ---- the file system ----

\* path.exists()
Exists(p) == p \in DOMAIN fsdir

\* The directory after `p` was made to name inode n.
Link(dir, p, n) == [q \in (DOMAIN dir) \cup {p} |-> IF q = p THEN n ELSE dir[q]]

\* The directory without the entry `p`.
Unlink(dir, p) == [q \in (DOMAIN dir) \ {p} |-> dir[q]]

\* write_all(data) through a handle at position 0: the bytes replace the first
\* Len(data) bytes of the file and leave what lies beyond them.
Overlay(old, data) == data \o SubSeq(old, Len(data) + 1, Len(old))

\* The variables no step of a file job changes.
jobFixed == <<workers, sender, jobs, rxLock, dropBacklog, mainVars, mapVars,
              config, files, unreadable, stats, handled, stripVars>>

\* A job that takes a codec error for success.
StripNeverFails(r) == FALSE

\* match strip_metadata(&data, path) { Ok(r) => r, Err(e) => return Failed }
StripFailed(r) == r.kind # "Ok"

\* fs::read(path): the bytes of the file, nothing when the read fails.
FsRead(path, dir, nodes, unread) ==
    IF path \in unread \/ path \notin DOMAIN dir THEN <<>> ELSE nodes[dir[path]]

\* process_file_standalone, up to get_output_path: fs::read(path), then
\* strip_metadata on the bytes read.  A read error or a codec error is the
\* job's result; a codec that never returns leaves the worker in the job.
FileRead(w) ==
    /\ wpc[w] = "run"
    /\ wjob[w].kind = "file"
    /\ \E r \in {StripMetadata(FsRead(wjob[w].path, fsdir, inodes, unreadable))} :
       LET idx == wjob[w].idx
           path == wjob[w].path
       IN  IF path \in unreadable \/ ~Exists(path)
           THEN /\ wloc' = [wloc EXCEPT ![w] = [result |-> Failed(idx, "read")]]
                /\ wpc' = [wpc EXCEPT ![w] = "send"]
           ELSE IF r.kind = "Diverges"
           THEN /\ wloc' = wloc
                /\ wpc' = [wpc EXCEPT ![w] = "hung"]
           ELSE IF StripFailed(r)
           THEN /\ wloc' = [wloc EXCEPT ![w] = [result |-> Failed(idx, r.kind)]]
                /\ wpc' = [wpc EXCEPT ![w] = "send"]
           ELSE /\ wloc' = [wloc EXCEPT ![w] =
                               [data |-> r.data, bytes_removed |-> r.bytes_removed,
                                output_path |-> GetOutputPath(config, path)]]
                /\ wpc' = [wpc EXCEPT ![w] = "exists"]
    /\ UNCHANGED <<jobFixed, wjob, fsdir, inodes, resultCh, resultTx, touched, runVars>>

\* if output_path.exists() && !config.force && !config.in_place { return Failed }
\* and the dry run, which returns Success without writing.
FileExists(w) ==
    /\ wpc[w] = "exists"
    /\ LET idx == wjob[w].idx
           loc == wloc[w]
       IN  IF Exists(loc.output_path) /\ ~config.force /\ ~config.in_place
           THEN /\ wloc' = [wloc EXCEPT ![w] = [result |-> Failed(idx, "exists")]]
                /\ wpc' = [wpc EXCEPT ![w] = "send"]
           ELSE IF config.dry_run
           THEN /\ wloc' = [wloc EXCEPT ![w] =
                               [result |-> Success(idx, loc.bytes_removed)]]
                /\ wpc' = [wpc EXCEPT ![w] = "send"]
           ELSE /\ wloc' = wloc
                /\ wpc' = [wpc EXCEPT ![w] = "create"]
    /\ UNCHANGED <<jobFixed, wjob, fsdir, inodes, resultCh, resultTx, touched, runVars>>

\* The path write_output_standalone creates: path.with_extension("pmi_tmp") in
\* place, the output path otherwise.
CreateTarget(loc) ==
    IF config.in_place THEN WithExtension(loc.output_path, "pmi_tmp") ELSE loc.output_path

\* fs::File::create(target): a new empty file, or the existing file truncated;
\* the job keeps the handle.
FileCreate(w) ==
    /\ wpc[w] = "create"
    /\ LET idx == wjob[w].idx
           target == CreateTarget(wloc[w])
           fd == IF Exists(target) THEN fsdir[target] ELSE Len(inodes) + 1
       IN  /\ fsdir' = Link(fsdir, target, fd)
           /\ inodes' = IF Exists(target) THEN [inodes EXCEPT ![fd] = <<>>]
                        ELSE Append(inodes, <<>>)
           /\ wloc' = [wloc EXCEPT ![w] =
                          [data |-> wloc[w].data, bytes_removed |-> wloc[w].bytes_removed,
                           output_path |-> wloc[w].output_path,
                           target |-> target, fd |-> fd]]
           /\ touched' = [touched EXCEPT ![idx] = @ \cup {target}]
    /\ wpc' = [wpc EXCEPT ![w] = "write"]
    /\ UNCHANGED <<jobFixed, wjob, resultCh, resultTx, runVars>>

\* file.write_all(data) (and flush); out of place this ends the job with Success.
FileWrite(w) ==
    /\ wpc[w] = "write"
    /\ LET idx == wjob[w].idx
           loc == wloc[w]
       IN  /\ inodes' = [inodes EXCEPT ![loc.fd] = Overlay(@, loc.data)]
           /\ touched' = [touched EXCEPT ![idx] = @ \cup {loc.target}]
           /\ IF config.in_place
              THEN /\ wloc' = wloc
                   /\ wpc' = [wpc EXCEPT ![w] = "rename"]
              ELSE /\ wloc' = [wloc EXCEPT ![w] =
                                  [result |-> Success(idx, loc.bytes_removed)]]
                   /\ wpc' = [wpc EXCEPT ![w] = "send"]
    /\ UNCHANGED <<jobFixed, wjob, fsdir, resultCh, resultTx, runVars>>

\* fs::rename(&temp_path, path): fails when the temp file is no longer there.
FileRename(w) ==
    /\ wpc[w] = "rename"
    /\ LET idx == wjob[w].idx
           loc == wloc[w]
       IN  /\ IF Exists(loc.target)
              THEN /\ fsdir' = Unlink(Link(fsdir, loc.output_path, fsdir[loc.target]),
                                      loc.target)
                   /\ touched' = [touched EXCEPT ![idx] = @ \cup {loc.target, loc.output_path}]
                   /\ wloc' = [wloc EXCEPT ![w] =
                                  [result |-> Success(idx, loc.bytes_removed)]]
              ELSE /\ fsdir' = fsdir
                   /\ touched' = touched
                   /\ wloc' = [wloc EXCEPT ![w] = [result |-> Failed(idx, "rename")]]
    /\ wpc' = [wpc EXCEPT ![w] = "send"]
    /\ UNCHANGED <<jobFixed, wjob, inodes, resultCh, resultTx, runVars>>

\* let _ = result_tx.send(result); the closure ends and its sender is dropped.
FileSend(w) ==
    /\ wpc[w] = "send"
    /\ resultCh' = Append(resultCh, wloc[w].result)
    /\ resultTx' = resultTx - 1
    /\ wjob' = [wjob EXCEPT ![w] = NoJob]
    /\ wloc' = [wloc EXCEPT ![w] = NoLoc]
    /\ wpc' = [wpc EXCEPT ![w] = "lock"]
    /\ UNCHANGED <<jobFixed, fsdir, inodes, touched, runVars>>

\* ---- run_parallel, the calling thread ----

InitBatch ==
    /\ NoRun
    /\ NoPool /\ NoStrip
    /\ items = <<>> /\ results = <<>> /\ ret = <<>> /\ counter = 0
    /\ mpc = "start" /\ mi = 1
    /\ nthreads \in 2..MaxThreads
    /\ config \in Configs
    /\ files \in Batches
    /\ fsdir = [p \in {files[i] : i \in 1..Len(files)} |->
                   CHOOSE i \in 1..Len(files) : files[i] = p]
    /\ inodes = [i \in 1..Len(files) |-> Content(files[i])]
    /\ unreadable = {files[i] : i \in 1..Len(files)} \cap {LockedJpg}
    /\ resultCh = <<>> /\ resultTx = 0
    /\ stats = NewStats
    /\ handled = <<>>
    /\ touched = [i \in 1..Len(files) |-> {}]

\* let (result_tx, result_rx) = mpsc::channel(); let pool = ThreadPool::new(num_threads);
RunParallelNew ==
    /\ mpc = "start"
    /\ ThreadPoolNew(nthreads)
    /\ resultCh' = <<>>
    /\ resultTx' = 1
    /\ mpc' = "submit"
    /\ mi' = 1
    /\ UNCHANGED <<dropBacklog, mapVars, config, files, fsdir, inodes, unreadable,
                   stats, handled, touched, stripVars, runVars>>

\* for path in files { let result_tx = result_tx.clone(); pool.execute(..) }
RunParallelExecute ==
    /\ mpc = "submit"
    /\ mi <= Len(files)
    /\ resultTx' = resultTx + 1
    /\ PoolExecute([kind |-> "file", idx |-> mi, path |-> files[mi]])
    /\ mi' = mi + 1
    /\ mpc' = IF mi = Len(files) THEN "droptx" ELSE "submit"
    /\ UNCHANGED <<workers, sender, rxLock, wpc, wjob, wloc, dropBacklog, mapVars,
                   config, files, fsdir, inodes, unreadable, resultCh, stats,
                   handled, touched, stripVars, runVars>>

\* drop(result_tx)
RunParallelDropTx ==
    /\ mpc = "droptx"
    /\ resultTx' = resultTx - 1
    /\ mpc' = "collect"
    /\ UNCHANGED <<poolVars, wloc, dropBacklog, mi, mapVars, config, files, fsdir,
                   inodes, unreadable, resultCh, stats, handled, touched, stripVars, runVars>>

\* while let Ok(result) = result_rx.recv() { self.handle_result(result); .. }
RunParallelRecv ==
    /\ mpc = "collect"
    /\ resultCh # <<>>
    /\ stats' = HandleResult(stats, Head(resultCh))
    /\ handled' = Append(handled, Head(resultCh))
    /\ resultCh' = Tail(resultCh)
    /\ UNCHANGED <<poolVars, wloc, dropBacklog, mainVars, mapVars, config, files,
                   fsdir, inodes, unreadable, resultTx, touched, stripVars, runVars>>

\* A receive loop that ends as soon as the channel is empty.
RecvStopsWhenEmpty == resultCh = <<>>

\* result_rx.recv() returns Err: the channel is empty and every sender is gone.
RecvDisconnected == resultCh = <<>> /\ resultTx = 0

\* The loop ends; Ok(()) is returned once the locals are dropped, the pool first.
RunParallelRecvErr ==
    /\ mpc = "collect"
    /\ RecvDisconnected
    /\ mpc' = "drop"
    /\ UNCHANGED <<poolVars, wloc, dropBacklog, mi, mapVars, procVars, stripVars, runVars>>

NextBatch ==
    \/ RunParallelNew
    \/ RunParallelExecute
    \/ RunParallelDropTx
    \/ RunParallelRecv
    \/ RunParallelRecvErr
    \/ PoolDropSender
    \/ PoolJoin("done")
    \/ \E w \in 1..workers : WorkerLock(w)
    \/ \E w \in 1..workers : WorkerRecv(w)
    \/ \E w \in 1..workers : WorkerRecvClosed(w)
    \/ \E w \in 1..workers : FileRead(w)
    \/ \E w \in 1..workers : FileExists(w)
    \/ \E w \in 1..workers : FileCreate(w)
    \/ \E w \in 1..workers : FileWrite(w)
    \/ \E w \in 1..workers : FileRename(w)
    \/ \E w \in 1..workers : FileSend(w)

SpecBatch == InitBatch /\ [][NextBatch]_vars

(***************************************************************************)
(* main.rs and processor.rs: main from Processor::new on, Processor::run   *)
(* over the paths of the command line, sequential or parallel.             *)
(***************************************************************************)

\* A file of unsupported extension, a path that names nothing, a directory,
\* and outputs of an earlier run.
NotesTxt == Path("d1", "notes", "txt")
MissingJpg == Path("d1", "gone", "jpg")
DirD1 == Path("d1", "", "")
OldCleanJpg == Path("d1", "a_clean", "jpg")
OldOutJpg == Path("out", "a", "jpg")
InputFiles == {PhotoJpg, PhotoPng, OtherJpg, BrokenJpg, LockedJpg, ExtraJpg}

\* The bytes of an output left by an earlier run.
OldOutput == <<79, 76, 68>>

DiskContent(p) == IF p \in InputFiles THEN Content(p) ELSE OldOutput

\* A directory create_dir_all cannot create.
DeniedDir == "denied"

\* A command line and the file system it meets: config.paths, the files on
\* disk and the directories that exist.
RunCase(paths, disk, ds) == [paths |-> paths, disk |-> disk, dirs |-> ds]

RunCases ==
    {RunCase(<<PhotoJpg, ExtraJpg>>, <<PhotoJpg, ExtraJpg>>, {"d1"}),
     RunCase(<<PhotoJpg, BrokenJpg, LockedJpg>>, <<PhotoJpg, BrokenJpg, LockedJpg>>, {"d1"}),
     RunCase(<<PhotoJpg>>, <<PhotoJpg>>, {"d1"}),
     RunCase(<<PhotoJpg, MissingJpg>>, <<PhotoJpg>>, {"d1"}),
     RunCase(<<NotesTxt>>, <<NotesTxt>>, {"d1"}),
     RunCase(<<DirD1>>, <<PhotoJpg, NotesTxt, BrokenJpg>>, {"d1"}),
     RunCase(<<PhotoJpg, OtherJpg>>, <<PhotoJpg, OtherJpg, OldCleanJpg, OldOutJpg>>,
             {"d1", "d2", "out"}),
     RunCase(<<ExtraJpg, PhotoJpg>>, <<PhotoJpg, ExtraJpg, OldCleanJpg>>, {"d1", "out"})}

\* Config with the fields Processor::run reads: paths and jobs too.
MkRunConfig(c, paths, njobs) ==
    [in_place |-> c.in_place, output_dir |-> c.output_dir, force |-> c.force,
     dry_run |-> c.dry_run, paths |-> paths, jobs |-> njobs]

RunFlags ==
    Configs \cup {MkConfig(FALSE, "out", FALSE, TRUE),
                  MkConfig(FALSE, NoDir, TRUE, TRUE),
                  MkConfig(TRUE, NoDir, FALSE, TRUE),
                  MkConfig(FALSE, DeniedDir, FALSE, FALSE),
                  MkConfig(FALSE, DeniedDir, FALSE, TRUE)}

\* path.is_file(), path.is_dir()
IsFile(p) == p \in DOMAIN fsdir
IsDir(p) == p.stem = "" /\ p.dir \in dirs

\* Processor::is_supported_file(path)
IsSupportedFile(p) == DetectFormatFromExtension(p) # "None"

\* The orders in which fs::read_dir can list the files of directory d.
ReadDir(d) ==
    LET inside == {p \in DOMAIN fsdir : p.dir = d}
    IN  {f \in [1..Cardinality(inside) -> inside] :
            \A i, j \in 1..Cardinality(inside) : f[i] = f[j] => i = j}

\* Processor::collect_files over config.paths, a directory listed as `listing`:
\* the supported files, or NotFound for a path that names nothing.
RECURSIVE CollectFiles(_, _, _)
CollectFiles(paths, listing, acc) ==
    IF paths = <<>> THEN [ok |-> TRUE, files |-> acc]
    ELSE LET p == Head(paths)
         IN  IF IsFile(p)
             THEN CollectFiles(Tail(paths), listing,
                               IF IsSupportedFile(p) THEN Append(acc, p) ELSE acc)
             ELSE IF IsDir(p)
             THEN CollectFiles(Tail(paths), listing,
                               acc \o SelectSeq(listing, IsSupportedFile))
             ELSE [ok |-> FALSE, files |-> acc]

\* A directory creation that does not ask for dry_run.
CreateDirAlways(cfg, ds) == cfg.output_dir # NoDir /\ cfg.output_dir \notin ds

\* if let Some(output_dir) = config.output_dir { if !output_dir.exists() {
\*     if config.dry_run { .. } else { fs::create_dir_all(output_dir)? } } }
NeedsCreateDir(cfg, ds) ==
    cfg.output_dir # NoDir /\ cfg.output_dir \notin ds /\ ~cfg.dry_run

InitRun ==
    /\ NoPool /\ NoStrip
    /\ items = <<>> /\ results = <<>> /\ ret = <<>> /\ counter = 0
    /\ mpc = "run" /\ mi = 1
    /\ \E rc \in RunCases, fl \in RunFlags, njobs \in 1..(MaxThreads - 1) :
          /\ config = MkRunConfig(fl, rc.paths, njobs)
          /\ nthreads = njobs
          /\ fsdir = [p \in {rc.disk[i] : i \in 1..Len(rc.disk)} |->
                         CHOOSE i \in 1..Len(rc.disk) : rc.disk[i] = p]
          /\ inodes = [i \in 1..Len(rc.disk) |-> DiskContent(rc.disk[i])]
          /\ unreadable = {rc.disk[i] : i \in 1..Len(rc.disk)} \cap {LockedJpg}
          /\ dirs = rc.dirs
    /\ files = <<>>
    /\ resultCh = <<>> /\ resultTx = 0
    /\ stats = NewStats
    /\ handled = <<>>
    /\ touched = <<>>
    /\ runResult = "none" /\ exitCode = -1
    /\ disk0 = [fsdir |-> fsdir, inodes |-> inodes, dirs |-> dirs]

\* Processor::run up to the choice of run_parallel or run_sequential:
\* collect_files, the early return for no file, create_dir_all.
RunStart ==
    /\ mpc = "run"
    /\ \E listing \in ReadDir("d1") :
          LET c == CollectFiles(config.paths, listing, <<>>)
              mkdir == NeedsCreateDir(config, dirs)
          IN  IF ~c.ok \/ (c.files # <<>> /\ mkdir /\ config.output_dir = DeniedDir)
              THEN /\ runResult' = "Err"
                   /\ mpc' = "exit"
                   /\ UNCHANGED <<files, touched, dirs>>
              ELSE IF c.files = <<>>
              THEN /\ runResult' = "Ok"
                   /\ mpc' = "exit"
                   /\ UNCHANGED <<files, touched, dirs>>
              ELSE /\ files' = c.files
                   /\ touched' = [i \in 1..Len(c.files) |-> {}]
                   /\ dirs' = IF mkdir THEN dirs \cup {config.output_dir} ELSE dirs
                   /\ runResult' = runResult
                   /\ mpc' = IF config.jobs > 1 /\ Len(c.files) > 1 THEN "start" ELSE "seq"
    /\ UNCHANGED <<poolVars, wloc, dropBacklog, mi, mapVars, config, fsdir, inodes,
                   unreadable, resultCh, resultTx, stats, handled, stripVars,
                   exitCode, disk0>>

\* A write_output_standalone that creates its file and writes nothing to it.
WriteOutputCreatesOnly(path, data, in_place, dir, nodes) ==
    [fsdir |-> Link(dir, path, IF path \in DOMAIN dir THEN dir[path] ELSE Len(nodes) + 1),
     inodes |-> IF path \in DOMAIN dir THEN [nodes EXCEPT ![dir[path]] = <<>>]
                ELSE Append(nodes, <<>>),
     touched |-> {path}]

\* write_output_standalone(path, data, in_place) on the file system (dir,
\* nodes), no other thread at work: create, write_all, and in place the rename.
WriteOutputStandalone(path, data, in_place, dir, nodes) ==
    LET target == IF in_place THEN WithExtension(path, "pmi_tmp") ELSE path
        fd == IF target \in DOMAIN dir THEN dir[target] ELSE Len(nodes) + 1
        created == Link(dir, target, fd)
        written == IF target \in DOMAIN dir THEN [nodes EXCEPT ![fd] = data]
                   ELSE Append(nodes, data)
    IN  [fsdir |-> IF in_place THEN Unlink(Link(created, path, fd), target) ELSE created,
         inodes |-> written,
         touched |-> {target, path}]

\* process_file_standalone(path, config) run from start to end by one thread,
\* r being what strip_metadata returns for the bytes read: its ProcessResult
\* and the file system it leaves.
ProcessFileStandalone(idx, path, cfg, dir, nodes, unread, r) ==
    LET same == [fsdir |-> dir, inodes |-> nodes, touched |-> {}]
        output_path == GetOutputPath(cfg, path)
    IN  IF path \in unread \/ path \notin DOMAIN dir
        THEN [result |-> Failed(idx, "read"), fs |-> same]
        ELSE IF r.kind = "Diverges" THEN [result |-> [kind |-> "Diverges"], fs |-> same]
        ELSE IF StripFailed(r) THEN [result |-> Failed(idx, r.kind), fs |-> same]
        ELSE IF output_path \in DOMAIN dir /\ ~cfg.force /\ ~cfg.in_place
        THEN [result |-> Failed(idx, "exists"), fs |-> same]
        ELSE IF cfg.dry_run
        THEN [result |-> Success(idx, r.bytes_removed), fs |-> same]
        ELSE [result |-> Success(idx, r.bytes_removed),
              fs |-> WriteOutputStandalone(output_path, r.data, cfg.in_place, dir, nodes)]

\* One turn of the loop of run_sequential: process_file, then handle_result.
\* Ok(()) follows the last turn.
RunSequential ==
    /\ mpc = "seq"
    /\ mi <= Len(files)
    /\ \E sr \in {StripMetadata(FsRead(files[mi], fsdir, inodes, unreadable))} :
       \E r \in {ProcessFileStandalone(mi, files[mi], config, fsdir, inodes, unreadable, sr)} :
           IF r.result.kind = "Diverges"
           THEN /\ mpc' = "hung"
                /\ UNCHANGED <<mi, fsdir, inodes, touched, stats, handled>>
           ELSE /\ fsdir' = r.fs.fsdir
                /\ inodes' = r.fs.inodes
                /\ touched' = [touched EXCEPT ![mi] = r.fs.touched]
                /\ stats' = HandleResult(stats, r.result)
                /\ handled' = Append(handled, r.result)
                /\ mi' = mi + 1
                /\ mpc' = IF mi = Len(files) THEN "done" ELSE "seq"
    /\ UNCHANGED <<poolVars, wloc, dropBacklog, mapVars, config, files, unreadable,
                   resultCh, resultTx, stripVars, runVars>>

\* self.stats.set_duration(..); Ok(self.stats.clone())
RunReturn ==
    /\ mpc = "done"
    /\ runResult' = "Ok"
    /\ mpc' = "exit"
    /\ UNCHANGED <<poolVars, wloc, dropBacklog, mi, mapVars, procVars, stripVars,
                   dirs, exitCode, disk0>>

\* ExitCode::from(1)
FAILURE == 1
\* ExitCode::SUCCESS
SUCCESS == 0

\* An exit status that counts a batch without any processed file as failed.
ExitFailsWithoutSuccess(result, st) ==
    IF result = "Ok" /\ st.failed = 0 /\ st.processed > 0 THEN SUCCESS ELSE FAILURE

\* match processor.run() { Ok(stats) => if stats.failed > 0 { 1 } else { SUCCESS },
\*                         Err(e) => 1 }
ExitStatus(result, st) ==
    IF result = "Ok" THEN (IF st.failed > 0 THEN FAILURE ELSE SUCCESS) ELSE FAILURE

MainExit ==
    /\ mpc = "exit"
    /\ exitCode' = ExitStatus(runResult, stats)
    /\ mpc' = "exited"
    /\ UNCHANGED <<poolVars, wloc, dropBacklog, mi, mapVars, procVars, stripVars,
                   dirs, runResult, disk0>>

NextRun ==
    \/ RunStart
    \/ RunSequential
    \/ RunReturn
    \/ MainExit
    \/ RunParallelNew
    \/ RunParallelExecute
    \/ RunParallelDropTx
    \/ RunParallelRecv
    \/ RunParallelRecvErr
    \/ PoolDropSender
    \/ PoolJoin("done")
    \/ \E w \in 1..workers : WorkerLock(w)
    \/ \E w \in 1..workers : WorkerRecv(w)
    \/ \E w \in 1..workers : WorkerRecvClosed(w)
    \/ \E w \in 1..workers : FileRead(w)
    \/ \E w \in 1..workers : FileExists(w)
    \/ \E w \in 1..workers : FileCreate(w)
    \/ \E w \in 1..workers : FileWrite(w)
    \/ \E w \in 1..workers : FileRename(w)
    \/ \E w \in 1..workers : FileSend(w)

SpecRun == InitRun /\ [][NextRun]_vars

(***************************************************************************)
(* simd.rs: crc32::compute applied to one buffer.                          *)
(***************************************************************************)

\* ---- bounds of the CRC inputs ----
\* the longest of the enumerated short buffers
MaxCrcLen == 3

\* The bytes the short buffers are made of.
CrcBytesAlphabet == {0, 1, 255}

RECURSIVE SeqsUpTo(_, _)
SeqsUpTo(S, n) ==
    IF n = 0 THEN {<<>>}
    ELSE LET shorter == SeqsUpTo(S, n - 1)
         IN  shorter \cup {Append(q, x) : q \in {r \in shorter : Len(r) = n - 1}, x \in S}

\* b"IEND", b"123456789", b"Hello, World!" and 0, 1, .., 15.
BYTES_IEND == <<73, 69, 78, 68>>
BYTES_DIGITS == <<49, 50, 51, 52, 53, 54, 55, 56, 57>>
BYTES_HELLO == <<72, 101, 108, 108, 111, 44, 32, 87, 111, 114, 108, 100, 33>>
BYTES_COUNT == [i \in 1..16 |-> i - 1]

CrcInputs ==
    SeqsUpTo(CrcBytesAlphabet, MaxCrcLen)
        \cup {BYTES_IEND, BYTES_DIGITS, BYTES_HELLO, BYTES_COUNT}

InitCrc ==
    /\ NoRun
    /\ NoPool /\ NoProc
    /\ mpc = "unused" /\ mi = 0
    /\ items = <<>> /\ nthreads = 0 /\ results = <<>> /\ ret = <<>> /\ counter = 0
    /\ sin \in CrcInputs
    /\ cpu \in Cpus
    /\ sres = NoResult /\ sres2 = NoResult
    /\ spc = "start"
    /\ crcOut = <<>> /\ detected = "" /\ spaths = <<>>

\* let crc = crc32::compute(data);
CrcCompute ==
    /\ spc = "start"
    /\ crcOut' = Compute(sin)
    /\ spc' = "crc"
    /\ UNCHANGED <<poolVars, wloc, dropBacklog, mainVars, mapVars, procVars,
                   sin, sres, sres2, cpu, detected, spaths, runVars>>

NextCrc == CrcCompute

SpecCrc == InitCrc /\ [][NextCrc]_vars

\* CRC-32/ISO-3309 by its definition: start from 0xFFFFFFFF, xor each byte into
\* the low byte and shift right eight times, xoring 0xEDB88320 in whenever a
\* one was shifted out; the result is xored with 0xFFFFFFFF.
RECURSIVE ShiftRounds(_, _)
ShiftRounds(crc, j) ==
    IF j = 0 THEN crc
    ELSE LET prev == ShiftRounds(crc, j - 1)
         IN  IF prev.lo % 2 = 1 THEN Xor32(Shr1(prev), U32(60856, 33568)) ELSE Shr1(prev)

RECURSIVE IsoRegister(_)
IsoRegister(bytes) ==
    IF bytes = <<>> THEN U32(65535, 65535)
    ELSE LET prev == IsoRegister(SubSeq(bytes, 1, Len(bytes) - 1))
         IN  IF prev.lo >= 0
             THEN ShiftRounds(U32(prev.hi, Xor(prev.lo, bytes[Len(bytes)])), 8)
             ELSE prev

CrcIso3309(bytes) == Xor32(IsoRegister(bytes), U32(65535, 65535))

\* C12: on every path crc32::compute may select, its result is the
\* CRC-32/ISO-3309 value of the input and equals compute_software of it; for
\* the four bytes "IEND" it is 0xAE426082.
C12_ComputeIsIsoCrc ==
    spc = "crc" =>
        /\ crcOut = CrcIso3309(sin)
        /\ crcOut = ComputeSoftware(sin)
        /\ sin = BYTES_IEND => crcOut = U32(44610, 24706)

\* compute ran on "IEND" on an x86_64 CPU with SSE4.2 and returned a value
\* that is neither 0xAE426082 nor what compute_software returns.
C12_Witness ==
    /\ spc = "crc" /\ cpu = "x86_64+sse4.2" /\ sin = BYTES_IEND
    /\ crcOut # U32(44610, 24706)
    /\ crcOut # ComputeSoftware(sin)
    /\ ComputeSoftware(sin) = U32(44610, 24706)

(***************************************************************************)
(* formats/mod.rs: detect_format applied to one buffer.                    *)
(***************************************************************************)

\* ---- bounds of the detection inputs ----
\* how many bytes beyond the 12 that detection needs the longest buffer has
MaxExtra == 1

\* magic::JPEG, magic::TIFF_LE, magic::TIFF_BE
MAGIC_JPEG == <<255, 216, 255>>
MAGIC_TIFF_LE == <<73, 73, 42, 0>>
MAGIC_TIFF_BE == <<77, 77, 0, 42>>

\* `sig` followed by the byte `fill` up to n bytes.
PadTo(sig, n, fill) == [i \in 1..n |-> IF i <= Len(sig) THEN sig[i] ELSE fill]

\* The first eight bytes of a file of each format, and of none.
Heads ==
    {PadTo(sig, 8, 0) :
        sig \in {MAGIC_JPEG, PNG_SIGNATURE, GIF87A, GIF89A, RIFF, MAGIC_TIFF_LE,
                 MAGIC_TIFF_BE, <<>>}}

\* `h` with the byte at offset j replaced by '!'; unchanged for j = Len(h).
Corrupt(h, j) == [i \in 1..Len(h) |-> IF i = j + 1 THEN 33 ELSE h[i]]

\* Bytes 8..11: "WEBP", "WEBQ", zeros.
Tails == {WEBP, <<87, 69, 66, 81>>, <<0, 0, 0, 0>>}

\* Buffers of 11 to 12 + MaxExtra bytes: every head, intact or with one byte
\* damaged, followed by every tail, cut or filled to the length.
DetectInputs ==
    {PadTo(SubSeq(Corrupt(h, j) \o t, 1, Min(n, 12)), n, 0) :
        h \in Heads, j \in 0..8, t \in Tails, n \in 11..(12 + MaxExtra)}

InitDetect ==
    /\ NoRun
    /\ NoPool /\ NoProc
    /\ mpc = "unused" /\ mi = 0
    /\ items = <<>> /\ nthreads = 0 /\ results = <<>> /\ ret = <<>> /\ counter = 0
    /\ sin \in DetectInputs
    /\ cpu = "software"
    /\ sres = NoResult /\ sres2 = NoResult
    /\ spc = "start"
    /\ crcOut = <<>> /\ detected = "" /\ spaths = <<>>

\* let format = detect_format(data);
Detect ==
    /\ spc = "start"
    /\ detected' = DetectFormat(sin)
    /\ spc' = "detected"
    /\ UNCHANGED <<poolVars, wloc, dropBacklog, mainVars, mapVars, procVars,
                   sin, sres, sres2, cpu, crcOut, spaths, runVars>>

NextDetect == Detect

SpecDetect == InitDetect /\ [][NextDetect]_vars

\* The rules of detection, each on its own.
RuleJpeg(d) == SubSeq(d, 1, 3) = <<255, 216, 255>>
RulePng(d) == SubSeq(d, 1, 8) = <<137, 80, 78, 71, 13, 10, 26, 10>>
RuleGif(d) == SubSeq(d, 1, 6) \in {<<71, 73, 70, 56, 55, 97>>, <<71, 73, 70, 56, 57, 97>>}
RuleWebp(d) == SubSeq(d, 1, 4) = <<82, 73, 70, 70>> /\ SubSeq(d, 9, 12) = <<87, 69, 66, 80>>
RuleTiff(d) == SubSeq(d, 1, 4) \in {<<73, 73, 42, 0>>, <<77, 77, 0, 42>>}

\* The formats whose rule a buffer of at least 12 bytes matches.
Matching(d) ==
    {f \in {"Jpeg", "Png", "Gif", "WebP", "Tiff"} :
        \/ f = "Jpeg" /\ RuleJpeg(d)
        \/ f = "Png" /\ RulePng(d)
        \/ f = "Gif" /\ RuleGif(d)
        \/ f = "WebP" /\ RuleWebp(d)
        \/ f = "Tiff" /\ RuleTiff(d)}

\* C17: detect_format returns None for a buffer shorter than 12 bytes; for a
\* longer one it returns the format whose signature rule the buffer matches,
\* None when no rule matches, and no buffer matches two rules.
C17_DetectBySignature ==
    spc = "detected" =>
        IF Len(sin) < 12 THEN detected = "None"
        ELSE /\ Cardinality(Matching(sin)) <= 1
             /\ Matching(sin) = {} => detected = "None"
             /\ \A f \in Matching(sin) : detected = f

\* detect_format returned WebP for a 12-byte buffer; the same bytes cut to 11
\* are among the inputs, as are RIFF buffers without WEBP.
C17_Witness ==
    /\ spc = "detected"
    /\ detected = "WebP" /\ Len(sin) = 12

(***************************************************************************)
(* formats/mod.rs: strip_metadata on one buffer under two paths.           *)
(***************************************************************************)

\* Paths with a right, a wrong, an upper-case, an unknown and no extension.
PathSamples ==
    {Path("d1", "a", "jpg"), Path("d1", "a", "PNG"), Path("d2", "b", "tiff"),
     Path("d1", "a", "bmp"), Path("d1", "a", "")}

\* FF D8 FF D9: a JPEG too short for detect_format.
JpegTooShort == <<MARKER_PREFIX, SOI, MARKER_PREFIX, EOI>>

PathInputs == StripInputs \cup {JpegTooShort, JpegTruncated}

NoResultAt == [kind |-> "none", data |-> <<>>, bytes_removed |-> 0, error |-> NoError]

InitPaths ==
    /\ NoRun
    /\ NoPool /\ NoProc
    /\ mpc = "unused" /\ mi = 0
    /\ items = <<>> /\ nthreads = 0 /\ results = <<>> /\ ret = <<>> /\ counter = 0
    /\ sin \in PathInputs
    /\ spaths \in PathSamples \X PathSamples
    /\ cpu = "software"
    /\ sres = NoResultAt /\ sres2 = NoResultAt
    /\ spc = "start"
    /\ crcOut = <<>> /\ detected = ""

\* strip_metadata(&data, first_path)
StripAtFirst ==
    /\ spc = "start"
    /\ LET r == StripMetadataAt(sin, spaths[1])
       IN  IF r.kind = "Diverges"
           THEN spc' = "hung" /\ sres' = sres
           ELSE spc' = "first" /\ sres' = r
    /\ UNCHANGED <<poolVars, wloc, dropBacklog, mainVars, mapVars, procVars,
                   sin, sres2, cpu, crcOut, detected, spaths, runVars>>

\* strip_metadata(&data, second_path) on the same buffer
StripAtSecond ==
    /\ spc = "first"
    /\ LET r == StripMetadataAt(sin, spaths[2])
       IN  IF r.kind = "Diverges"
           THEN spc' = "hung" /\ sres2' = sres2
           ELSE spc' = "both" /\ sres2' = r
    /\ UNCHANGED <<poolVars, wloc, dropBacklog, mainVars, mapVars, procVars,
                   sin, sres, cpu, crcOut, detected, spaths, runVars>>

NextPaths ==
    \/ StripAtFirst
    \/ StripAtSecond

SpecPaths == InitPaths /\ [][NextPaths]_vars

\* C18: for one buffer and any two paths strip_metadata gives the same result
\* kind, the same output bytes and the same bytes_removed; a buffer that
\* detect_format does not recognise gives UnsupportedFormat under both paths,
\* whatever their extensions suggest.
C18_PathIndependent ==
    spc = "both" =>
        /\ sres.kind = sres2.kind
        /\ sres.data = sres2.data
        /\ sres.bytes_removed = sres2.bytes_removed
        /\ DetectFormat(sin) = "None" =>
              sres.kind = "UnsupportedFormat" /\ sres2.kind = "UnsupportedFormat"

\* A four-byte JPEG was passed once as a.jpg and once as a.bmp: both calls
\* failed with UnsupportedFormat, the first carrying the guess "Jpeg".
C18_Witness ==
    /\ spc = "both"
    /\ sin = JpegTooShort
    /\ spaths = <<Path("d1", "a", "jpg"), Path("d1", "a", "bmp")>>
    /\ sres.kind = "UnsupportedFormat" /\ sres.error.detected = "Jpeg"
    /\ sres2.kind = "UnsupportedFormat" /\ sres2.error.detected = "None"

\* ---- properties of run_parallel ----

\* The positions of `handled` that hold a result of file i.
Delivered(i) == {k \in 1..Len(handled) : handled[k].idx = i}

\* The receive loop of run_parallel has ended.
LoopEnded == mpc \in {"drop", "join", "done"}

\* C1: run_parallel hands handle_result at most one ProcessResult per file at
\* any time, and once its receive loop has ended (so also when it returns)
\* exactly one for every file, failures included; processed + failed + skipped
\* then equals the number of files.
C1_OneResultPerFile ==
    /\ \A i \in 1..Len(files) : Cardinality(Delivered(i)) <= 1
    /\ LoopEnded =>
          /\ \A i \in 1..Len(files) : Cardinality(Delivered(i)) = 1
          /\ stats.processed + stats.failed + stats.skipped = Len(files)

\* run_parallel has returned from a batch of three files on two workers in
\* which one file failed and another succeeded.
C1_Witness ==
    /\ mpc = "done" /\ Len(files) = 3 /\ nthreads = 2
    /\ \E k \in 1..Len(handled) : handled[k].kind = "Failed"
    /\ \E k \in 1..Len(handled) : handled[k].kind = "Success"

\* The bytes strip_metadata makes of the bytes file i had when the run began.
StrippedOriginal(i) == StripMetadata(Content(files[i])).data

\* The paths job i reads or writes: its input and what it created, wrote or renamed.
JobPaths(i) == {files[i]} \cup touched[i]

\* C4: two jobs of one batch share no path of the file system, and after an
\* in-place run every file that was read and stripped holds the stripped form
\* of its own original bytes.
C4_JobsShareNoPath ==
    /\ \A i, j \in 1..Len(files) : i # j => touched[i] \cap JobPaths(j) = {}
    /\ (mpc = "done" /\ config.in_place) =>
          \A i \in 1..Len(files) :
              (\E k \in Delivered(i) : handled[k].error \notin {"read", "InvalidImage", "UnsupportedFormat"})
                  => /\ Exists(files[i])
                     /\ inodes[fsdir[files[i]]] = StrippedOriginal(i)

\* The in-place run of d1/a.jpg and d1/a.png has returned: d1/a.jpg no longer
\* holds the stripped form of its own bytes, and the other job's rename failed.
C4_Witness ==
    /\ mpc = "done" /\ config.in_place
    /\ files = <<PhotoJpg, PhotoPng>>
    /\ inodes[fsdir[PhotoJpg]] # StrippedOriginal(1)
    /\ \E k \in 1..Len(handled) : handled[k].error = "rename"

\* The number of results of one variant handed to handle_result.
CountKind(kind) == Cardinality({k \in 1..Len(handled) : handled[k].kind = kind})

\* The bytes_removed of the Success results among the first k handled.
RECURSIVE SumRemoved(_)
SumRemoved(k) ==
    IF k = 0 THEN 0
    ELSE SumRemoved(k - 1)
           + (IF handled[k].kind = "Success" THEN handled[k].bytes_removed ELSE 0)

\* The counters are those of the results handed to handle_result so far.
StatsMatchHandled ==
    stats = [processed |-> CountKind("Success"), failed |-> CountKind("Failed"),
             skipped |-> CountKind("Skipped"),
             metadata_removed |-> SumRemoved(Len(handled))]

\* C5: the statistics change only in a step of the thread that called
\* run_parallel, in which it takes one result from the channel and no worker
\* moves; at every moment the counters equal the numbers of Success, Failed and
\* Skipped results handled so far and metadata_removed the sum of the
\* bytes_removed of the Success results, so no update is lost.
C5_StatsSingleWriter ==
    /\ []StatsMatchHandled
    /\ [][stats' # stats =>
             /\ mpc = "collect" /\ mpc' = "collect"
             /\ wpc' = wpc /\ wloc' = wloc /\ wjob' = wjob
             /\ resultCh # <<>>
             /\ handled' = Append(handled, Head(resultCh))]_vars

\* run_parallel has returned after two files succeeded, each with metadata
\* removed, and one failed.
C5_Witness ==
    /\ mpc = "done"
    /\ stats.processed = 2 /\ stats.failed = 1
    /\ \A k \in 1..Len(handled) :
          handled[k].kind = "Success" => handled[k].bytes_removed > 0
    /\ stats.metadata_removed > handled[1].bytes_removed
    /\ stats.metadata_removed > handled[2].bytes_removed
    /\ stats.metadata_removed > handled[3].bytes_removed

\* File i cannot be read, or strip_metadata returns an error for its bytes.
ReadOrCodecFails(i) ==
    \/ files[i] \in unreadable
    \/ StripMetadata(Content(files[i])).kind # "Ok"

\* C6: a job creates, writes or renames a path only when its file was read and
\* strip_metadata returned Ok for it; a file whose read or codec fails has no
\* path touched by its job and every result delivered for it is Failed.
C6_WriteOnlyAfterStripOk ==
    \A i \in 1..Len(files) :
        (touched[i] # {} \/ \E k \in Delivered(i) : handled[k].kind # "Failed")
            => ~ReadOrCodecFails(i)

\* run_parallel has returned from a run that writes files, in which one file
\* could not be read and another was rejected by its codec: both are reported
\* Failed and their jobs touched nothing, while a third file was written.
C6_Witness ==
    /\ mpc = "done" /\ ~config.dry_run
    /\ \E i, j, l \in 1..Len(files) :
          /\ files[i] \in unreadable /\ touched[i] = {}
          /\ \E k \in Delivered(i) : handled[k].kind = "Failed" /\ handled[k].error = "read"
          /\ files[j] \notin unreadable /\ touched[j] = {}
          /\ \E k \in Delivered(j) : handled[k].kind = "Failed" /\ handled[k].error = "InvalidImage"
          /\ touched[l] # {}
          /\ \E k \in Delivered(l) : handled[k].kind = "Success"

\* C29: when neither force nor in_place is set, a job never writes to an
\* output path at which a file exists at the moment of the write (it reports
\* Failed and leaves the file as it is), under every interleaving, also when
\* two files of one parallel batch map to the same output path: no step of
\* File::create opens a path that exists.
C29_NoWriteOverExistingFile ==
    [][(~config.force /\ ~config.in_place) =>
          \A w \in DOMAIN wpc :
              (wpc[w] = "create" /\ wpc'[w] = "write") => ~Exists(CreateTarget(wloc[w]))]_vars

\* Neither force nor in_place is set, and two jobs hold a handle each on the
\* same output path, which exists.
C29_Witness ==
    /\ ~config.force /\ ~config.in_place
    /\ \E v, w \in DOMAIN wpc :
          /\ v # w
          /\ wpc[v] = "write" /\ wpc[w] = "write"
          /\ wloc[v].target = wloc[w].target
          /\ Exists(wloc[w].target)

\* ---- properties of main and Processor::run ----

\* C21: the exit status is non-zero if and only if a file's result was Failed
\* or run returned an error; when run returns Ok and no file failed, the exit
\* status is success whatever the numbers of processed and skipped files.
C21_ExitReflectsFailures ==
    mpc = "exited" =>
        /\ exitCode # 0 <=>
              \/ runResult = "Err"
              \/ \E k \in 1..Len(handled) : handled[k].kind = "Failed"
        /\ (runResult = "Ok" /\ stats.failed = 0) => exitCode = 0

\* A run over an unsupported file only returned Ok and main exited with
\* success, no file processed; so did a dry run over two files.
C21_Witness ==
    /\ mpc = "exited" /\ exitCode = 0 /\ runResult = "Ok"
    /\ stats.processed = 0 /\ stats.failed = 0

\* The file system is as it was when Processor::run was called.
DiskUntouched ==
    /\ fsdir = disk0.fsdir /\ inodes = disk0.inodes /\ dirs = disk0.dirs
    /\ \A i \in 1..Len(touched) : touched[i] = {}

\* File i of the batch was reported as Success with the bytes_removed that
\* strip_metadata returns for its bytes, or it does not read and strip.
ReportedIfStripped(i) ==
    \E r \in {StripMetadata(FsRead(files[i], disk0.fsdir, disk0.inodes, unreadable))} :
        (files[i] \notin unreadable /\ r.kind = "Ok") =>
            \E k \in 1..Len(handled) : handled[k] = Success(i, r.bytes_removed)

\* The output path of file i is free, or force or in_place is set.
OutputFree(i) ==
    \/ GetOutputPath(config, files[i]) \notin DOMAIN disk0.fsdir
    \/ config.force \/ config.in_place

RECURSIVE SequentialFrom(_, _, _)
SequentialFrom(i, fsys, st) ==
    IF i > Len(files) THEN [fs |-> fsys, stats |-> st]
    ELSE LET r == ProcessFileStandalone(i, files[i], config, fsys.fsdir, fsys.inodes,
                      unreadable,
                      StripMetadata(FsRead(files[i], fsys.fsdir, fsys.inodes, unreadable)))
         IN  SequentialFrom(i + 1, r.fs, HandleResult(st, r.result))

\* What the sequential run makes of the files on the disk the process found.
SequentialOutcome == SequentialFrom(1, disk0, NewStats)

\* The bytes at path p, <<-1>> when there is no file.
ContentAt(dir, nodes, p) == IF p \in DOMAIN dir THEN nodes[dir[p]] ELSE <<-1>>

\* The paths file i reads, writes and renames.
FilePaths(i) ==
    {files[i], GetOutputPath(config, files[i]),
     WithExtension(GetOutputPath(config, files[i]), "pmi_tmp")}

\* No path of one file is a path of another.
PathsDistinct ==
    \A i, j \in 1..Len(files) : i # j => FilePaths(i) \cap FilePaths(j) = {}

\* C30: for one list of files whose input, output and temp paths are pairwise
\* distinct, Processor::run ends with the counts processed, failed and skipped,
\* the metadata_removed sum and the contents of every output path that the
\* sequential run ends with, be it run on one thread or on more, under every
\* interleaving of the workers.
C30_ParallelEqualsSequential ==
    (runResult = "Ok" /\ files # <<>> /\ PathsDistinct) =>
        /\ stats = SequentialOutcome.stats
        /\ \A i \in 1..Len(files) : \A p \in FilePaths(i) :
              ContentAt(fsdir, inodes, p)
                  = ContentAt(SequentialOutcome.fs.fsdir, SequentialOutcome.fs.inodes, p)

\* A run on two threads over three files with distinct paths returned: one
\* file was cleaned, two failed, and bytes were removed.
C30_Witness ==
    /\ runResult = "Ok" /\ config.jobs = 2 /\ Len(files) = 3 /\ PathsDistinct
    /\ workers = 2 /\ Len(handled) = 3
    /\ stats.processed = 1 /\ stats.failed = 2 /\ stats.metadata_removed > 0
    /\ ~config.dry_run

\* ---- properties of jpeg::strip ----

\* Where the entropy-coded data that starts at pos ends: at the first FF that
\* is followed by neither 00 nor RST0..RST7, or at the end of the buffer.
RECURSIVE ScanEnd(_, _)
ScanEnd(d, pos) ==
    IF pos >= Len(d) THEN Len(d)
    ELSE IF /\ At(d, pos) = 255
            /\ pos + 1 < Len(d)
            /\ At(d, pos + 1) \notin ({0} \cup 208..215)
    THEN pos
    ELSE ScanEnd(d, pos + 1)

\* The length-delimited segments of a well-formed JPEG from offset pos up to
\* EOI, as [marker, bytes]; a scan is its SOS header with its entropy-coded data.
RECURSIVE SegmentsOf(_, _)
SegmentsOf(d, pos) ==
    IF pos + 3 >= Len(d) \/ At(d, pos) # 255 \/ At(d, pos + 1) = 217 THEN <<>>
    ELSE LET m == At(d, pos + 1)
             n == 256 * At(d, pos + 2) + At(d, pos + 3)
             e == IF m = 218 THEN ScanEnd(d, pos + 2 + n) ELSE pos + 2 + n
         IN  <<[marker |-> m, bytes |-> Slice(d, pos, e)]>> \o SegmentsOf(d, e)

\* APP1 to APP13, APP15 and COM.
DroppedMarkers == (225..237) \cup {239, 254}
KeptSegment(seg) == seg.marker \notin DroppedMarkers

RECURSIVE FirstEoiEnd(_, _)
FirstEoiEnd(d, pos) ==
    IF pos >= Len(d) \/ At(d, pos) # 255 THEN 0
    ELSE LET p1 == SkipFF(d, pos)
             m == At(d, p1)
             p == p1 + 1
             n == BE16(d, p)
         IN  IF p1 >= Len(d) THEN 0
             ELSE IF m = 217 THEN p
             ELSE IF m = 218
             THEN IF p + 2 > Len(d) \/ p + n > Len(d) THEN 0
                  ELSE LET e == ScanEnd(d, p + n)
                       IN  IF e + 1 < Len(d) /\ At(d, e + 1) = 217 THEN e + 2
                           ELSE FirstEoiEnd(d, e)
             ELSE IF m \in ({216} \cup 208..215 \cup {0})
             THEN FirstEoiEnd(d, p)
             ELSE IF p + 2 > Len(d) \/ n < 2 \/ p + n > Len(d) THEN 0
             ELSE FirstEoiEnd(d, p + n)

IsJpegBuffer(d) == Len(d) >= 12 /\ SubSeq(d, 1, 3) = <<255, 216, 255>>

\* C23: jpeg::strip stops at the first EOI it emits, be it met where a segment
\* marker is expected or at the end of entropy-coded scan data: the result is
\* Ok and is the result for the input cut off behind that EOI, so no input
\* byte behind it is read, is emitted, or turns the result into an error.
C23_StripStopsAtFirstEoi ==
    (spc \in {"once", "twice"} /\ IsJpegBuffer(sin) /\ FirstEoiEnd(sin, 2) > 0) =>
        /\ sres.kind = "Ok"
        /\ sres.data = JpegStrip(SubSeq(sin, 1, FirstEoiEnd(sin, 2))).data

\* The JPEG with three bytes behind the EOI of its scan was refused, although
\* an EOI was emitted 49 bytes into its 52.
C23_Witness ==
    /\ spc = "once" /\ sin = JpegTrailing /\ sres.kind = "InvalidImage"
    /\ FirstEoiEnd(sin, 2) = 49 /\ Len(sin) = 52
    /\ JpegStrip(SubSeq(sin, 1, 49)).kind = "Ok"

\* C24: whenever jpeg::strip returns Ok, its output starts with FF D8 and ends
\* with FF D9, also when the scan data of the input runs to the end of the
\* buffer without an EOI.
C24_OutputEndsWithEoi ==
    (spc \in {"once", "twice"} /\ IsJpegBuffer(sin) /\ sres.kind = "Ok") =>
        /\ Len(sres.data) >= 4
        /\ SubSeq(sres.data, 1, 2) = <<255, 216>>
        /\ SubSeq(sres.data, Len(sres.data) - 1, Len(sres.data)) = <<255, 217>>

\* The JPEG whose scan runs to the end of the buffer was accepted, and the
\* output ends with the last two bytes of the scan.
C24_Witness ==
    /\ spc = "once" /\ sin = JpegNoEoi /\ sres.kind = "Ok"
    /\ SubSeq(sres.data, Len(sres.data) - 1, Len(sres.data)) = <<209, 34>>

\* ---- properties of strip_metadata on malformed input ----

Returned(r) == r.kind \in {"Ok", "InvalidImage", "UnsupportedFormat"}

\* C11: for every byte buffer, truncated ones and ones whose length, size,
\* count or offset fields point past the end included, strip_metadata returns
\* Ok or an error value (InvalidImage or UnsupportedFormat): a call that was
\* made has returned one of the three, it has not stopped short of a result.
C11_StripReturnsOkOrError ==
    /\ spc # "hung"
    /\ spc \in {"once", "twice"} => Returned(sres)
    /\ spc = "twice" => Returned(sres2)

\* A GIF that its own fields overrun was answered with InvalidImage.
C11_Witness ==
    /\ spc = "once" /\ sres.kind = "InvalidImage"
    /\ SubSeq(sin, 1, 6) = <<71, 73, 70, 56, 57, 97>>
    /\ Len(sin) >= 13

\* ---- properties of png::strip ----

\* The chunks of a PNG file from offset pos, as the chunk layout defines them:
\* a big-endian length, a four-byte type, that many bytes of data and four
\* bytes of CRC; the list ends with the first IEND or where a chunk is cut short.
RECURSIVE ChunksOf(_, _)
ChunksOf(d, pos) ==
    IF pos + 8 > Len(d) THEN <<>>
    ELSE LET n == ReadU32("Big", d, pos)
             t == SubSeq(d, pos + 5, pos + 8)
         IN  IF pos + 12 + n > Len(d) THEN <<>>
             ELSE <<[length |-> SubSeq(d, pos + 1, pos + 4), type |-> t,
                     data |-> SubSeq(d, pos + 9, pos + 8 + n),
                     crc |-> SubSeq(d, pos + 9 + n, pos + 12 + n)]>>
                  \o (IF t = <<73, 69, 78, 68>> THEN <<>> ELSE ChunksOf(d, pos + 12 + n))

\* tEXt, zTXt, iTXt, eXIf, tIME
DroppedChunkTypes ==
    {<<116, 69, 88, 116>>, <<122, 84, 88, 116>>, <<105, 84, 88, 116>>,
     <<101, 88, 73, 102>>, <<116, 73, 77, 69>>}

KeptChunk(c) == c.type \notin DroppedChunkTypes

\* The chunks written with the CRC-32 (ISO 3309) of their type and data.
RECURSIVE Resigned(_)
Resigned(cs) ==
    IF cs = <<>> THEN <<>>
    ELSE Head(cs).length \o Head(cs).type \o Head(cs).data
         \o ToBeBytes(CrcIso3309(Head(cs).type \o Head(cs).data))
         \o Resigned(Tail(cs))

HasType(cs, t) == \E k \in 1..Len(cs) : cs[k].type = t

\* C14: png::strip outputs the signature followed by exactly the input chunks,
\* up to and including the first IEND, whose type is not tEXt, zTXt, iTXt, eXIf
\* or tIME, in order, each with its length, type and data and with the CRC-32
\* of its type and data; an input without IHDR or without IEND is rejected
\* with InvalidImage.
C14_PngKeepsChunksResigned ==
    (spc = "once" /\ StartsWith(sin, PNG_SIGNATURE)) =>
        LET cs == ChunksOf(sin, 8)
        IN  /\ (~HasType(cs, <<73, 72, 68, 82>>) \/ ~HasType(cs, <<73, 69, 78, 68>>))
                   => sres.kind = "InvalidImage"
            /\ sres.kind = "Ok"
                   => sres.data = PNG_SIGNATURE \o Resigned(SelectSeq(cs, KeptChunk))

\* The PNG with a stale CRC and chunks behind IEND was stripped on the CPU with
\* SSE4.2: four chunks remain and the IDAT chunk no longer carries its input CRC.
C14_Witness ==
    /\ spc = "once" /\ cpu = "x86_64+sse4.2" /\ sres.kind = "Ok"
    /\ Len(ChunksOf(sin, 8)) = 8
    /\ Len(ChunksOf(sres.data, 8)) = 4
    /\ ChunksOf(sres.data, 8)[3].type = <<73, 68, 65, 84>>
    /\ ChunksOf(sres.data, 8)[3].crc # <<0, 0, 0, 0>>

\* ---- properties of gif::strip ----

\* The end of a chain of data sub-blocks that starts at offset p: the offset
\* behind its zero-length terminator, -1 when the buffer ends first.
RECURSIVE ChainEnd(_, _)
ChainEnd(d, p) ==
    IF p >= Len(d) THEN -1
    ELSE IF d[p + 1] = 0 THEN p + 1
    ELSE ChainEnd(d, p + 1 + d[p + 1])

\* The bytes of a local colour table announced by the packed byte of an image
\* descriptor: 3 * 2^(n + 1) when the top bit is set.
LocalTableBytes(packed) ==
    IF packed \div 128 = 1 THEN 3 * 2 ^ ((packed % 8) + 1) ELSE 0

GifBlock(kind, label, first, bytes) ==
    [kind |-> kind, label |-> label, first |-> first, bytes |-> bytes]

\* The blocks of a GIF file from offset p up to its trailer, as the GIF grammar
\* defines them: an extension is the introducer 21, a label and a sub-block
\* chain; an image is a 10-byte descriptor, a local colour table, the LZW code
\* size and a sub-block chain.  Anything else, or a block the buffer cuts
\* short, ends the list as "broken".
RECURSIVE GifBlocksOf(_, _)
GifBlocksOf(d, p) ==
    IF p >= Len(d) THEN <<>>
    ELSE IF d[p + 1] = 59 THEN <<>>
    ELSE IF d[p + 1] = 33 /\ p + 2 <= Len(d) /\ ChainEnd(d, p + 2) # -1
    THEN LET e == ChainEnd(d, p + 2)
         IN  <<GifBlock("extension", d[p + 2], SubSeq(d, p + 4, p + 3 + d[p + 3]),
                        SubSeq(d, p + 1, e))>>
             \o GifBlocksOf(d, e)
    ELSE IF d[p + 1] = 44 /\ p + 10 <= Len(d)
            /\ ChainEnd(d, p + 11 + LocalTableBytes(d[p + 10])) # -1
    THEN LET e == ChainEnd(d, p + 11 + LocalTableBytes(d[p + 10]))
         IN  <<GifBlock("image", 0, <<>>, SubSeq(d, p + 1, e))>> \o GifBlocksOf(d, e)
    ELSE <<GifBlock("broken", 0, <<>>, <<>>)>>

\* Graphics Control (F9), Plain Text (01), the NETSCAPE2.0 application
\* extension (FF) and images stay; every other extension goes.
KeptBlock(b) ==
    \/ b.kind = "image"
    \/ b.kind = "extension" /\ b.label \in {249, 1}
    \/ /\ b.kind = "extension" /\ b.label = 255
       /\ b.first = <<78, 69, 84, 83, 67, 65, 80, 69, 50, 46, 48>>

RECURSIVE BlockBytes(_)
BlockBytes(bs) == IF bs = <<>> THEN <<>> ELSE Head(bs).bytes \o BlockBytes(Tail(bs))

\* A GIF without a global colour table whose blocks are all whole.
WholeGif(d) ==
    /\ Len(d) >= 13
    /\ SubSeq(d, 1, 6) \in {<<71, 73, 70, 56, 55, 97>>, <<71, 73, 70, 56, 57, 97>>}
    /\ d[11] < 128
    /\ \A k \in 1..Len(GifBlocksOf(d, 13)) : GifBlocksOf(d, 13)[k].kind # "broken"

\* C15: gif::strip drops every Comment extension, every Application extension
\* whose first sub-block is not the NETSCAPE2.0 identifier and every extension
\* of unknown sub-type, each with its whole sub-block chain, and emits
\* NETSCAPE2.0 Application, Graphics Control and Plain Text extensions and
\* image blocks byte-identical and in their original order.
C15_GifKeepsImageBlocks ==
    (spc = "once" /\ WholeGif(sin)) =>
        LET kept == SubSeq(sin, 1, 13)
                    \o BlockBytes(SelectSeq(GifBlocksOf(sin, 13), KeptBlock))
        IN  /\ sres.kind = "Ok"
            /\ SubSeq(sres.data, 1, Len(kept)) = kept
            /\ Len(sres.data) <= Len(kept) + 1

\* The GIF with every kind of block was stripped: of its nine blocks the
\* looping extension, the graphics control and plain text extensions and both
\* images remain.
C15_Witness ==
    /\ spc = "once" /\ sin = GifFull /\ sres.kind = "Ok"
    /\ Len(GifBlocksOf(sin, 13)) = 9
    /\ Len(GifBlocksOf(sres.data, 13)) = 5
    /\ GifBlocksOf(sres.data, 13)[1].first = <<78, 69, 84, 83, 67, 65, 80, 69, 50, 46, 48>>
    /\ GifBlocksOf(sres.data, 13)[3].kind = "image"
    /\ GifBlocksOf(sres.data, 13)[4].label = 1

\* The header, the screen descriptor and the global colour table of a GIF.
GifHeadLen(d) == 13 + LocalTableBytes(d[11])

\* A GIF whose header, tables and blocks are all whole.
WholeGifFile(d) ==
    /\ Len(d) >= 13
    /\ SubSeq(d, 1, 6) \in {<<71, 73, 70, 56, 55, 97>>, <<71, 73, 70, 56, 57, 97>>}
    /\ GifHeadLen(d) <= Len(d)
    /\ \A k \in 1..Len(GifBlocksOf(d, GifHeadLen(d))) :
           GifBlocksOf(d, GifHeadLen(d))[k].kind # "broken"

\* C25: whenever gif::strip returns Ok, the output is the retained header,
\* screen descriptor, colour table and blocks followed by exactly one trailer
\* byte 3B: the input's own trailer when there is one, nothing behind it being
\* emitted, otherwise a trailer appended behind the retained bytes whatever the
\* value of the last of them.
C25_GifEndsWithOneTrailer ==
    (spc = "once" /\ WholeGifFile(sin) /\ sres.kind = "Ok") =>
        sres.data = SubSeq(sin, 1, GifHeadLen(sin))
                    \o BlockBytes(SelectSeq(GifBlocksOf(sin, GifHeadLen(sin)), KeptBlock))
                    \o <<59>>

\* The GIF without a trailer whose screen descriptor ends with 3B was accepted:
\* the output is its header and screen descriptor, and nothing more.
C25_Witness ==
    /\ spc = "once" /\ sin = GifAspect59 /\ sres.kind = "Ok"
    /\ sres.data = SubSeq(sin, 1, 13)
    /\ GifBlocksOf(sin, 13) # <<>>

\* ---- properties of webp::strip ----

\* The chunks of a RIFF body from offset p: a FourCC, a little-endian size,
\* that many bytes of data and a pad byte behind an odd size.
RECURSIVE RiffChunksOf(_, _)
RiffChunksOf(d, p) ==
    IF p + 8 > Len(d) THEN <<>>
    ELSE LET n == ReadU32("Little", d, p + 4)
         IN  IF p + 8 + n > Len(d) THEN <<>>
             ELSE <<[fourcc |-> SubSeq(d, p + 1, p + 4), size |-> SubSeq(d, p + 5, p + 8),
                     data |-> SubSeq(d, p + 9, p + 8 + n)]>>
                  \o RiffChunksOf(d, p + 8 + n + (n % 2))

\* 'EXIF' and 'XMP '
KeptRiffChunk(c) == c.fourcc \notin {<<69, 88, 73, 70>>, <<88, 77, 80, 32>>}

\* The bytes a list of chunks occupies when each is padded to even length.
RECURSIVE PaddedSpan(_)
PaddedSpan(cs) ==
    IF cs = <<>> THEN 0
    ELSE 8 + Len(Head(cs).data) + (Len(Head(cs).data) % 2) + PaddedSpan(Tail(cs))

\* Equal data, the first byte of a VP8X chunk set aside.
SameChunkData(a, b) ==
    \/ a.data = b.data
    \/ /\ a.fourcc = <<86, 80, 56, 88>>
       /\ Len(a.data) = Len(b.data)
       /\ \A j \in 2..Len(a.data) : a.data[j] = b.data[j]

\* C16: on accepted input webp::strip emits no 'EXIF' and no 'XMP ' chunk,
\* emits every other chunk in its original order with FourCC, size and data
\* unchanged (the VP8X flag byte excepted) and padded to even length, and the
\* little-endian u32 at bytes 4..7 of the output is the output length minus 8.
C16_WebpKeepsChunks ==
    (/\ spc = "once" /\ sres.kind = "Ok"
     /\ Len(sin) >= 12
     /\ SubSeq(sin, 1, 4) = <<82, 73, 70, 70>>
     /\ SubSeq(sin, 9, 12) = <<87, 69, 66, 80>>) =>
        LET kept == SelectSeq(RiffChunksOf(sin, 12), KeptRiffChunk)
            out == RiffChunksOf(sres.data, 12)
        IN  /\ Len(out) = Len(kept)
            /\ \A k \in 1..Len(out) :
                  /\ KeptRiffChunk(out[k])
                  /\ out[k].fourcc = kept[k].fourcc
                  /\ out[k].size = kept[k].size
                  /\ SameChunkData(out[k], kept[k])
            /\ Len(sres.data) = 12 + PaddedSpan(out)
            /\ ReadU32("Little", sres.data, 4) = Len(sres.data) - 8

\* The WebP with every kind of chunk was stripped: four of its six chunks
\* remain, the last one now padded, under a size field that was rewritten.
C16_Witness ==
    /\ spc = "once" /\ sin = WebpFull /\ sres.kind = "Ok"
    /\ Len(RiffChunksOf(sin, 12)) = 6
    /\ Len(RiffChunksOf(sres.data, 12)) = 4
    /\ Len(sin) % 2 = 1 /\ Len(sres.data) % 2 = 0
    /\ ReadU32("Little", sin, 4) = 0
    /\ ReadU32("Little", sres.data, 4) > 0

\* Bit i of a byte.
BitOf(b, i) == (b \div (2 ^ i)) % 2

\* Byte b with bit 3 (XMP present) and bit 5 (EXIF present) cleared and every
\* other bit as it was.
FlagsCleared(a, b) ==
    \A i \in 0..7 : BitOf(a, i) = IF i \in {3, 5} THEN 0 ELSE BitOf(b, i)

IsWebpInput(d) ==
    /\ Len(d) >= 12
    /\ SubSeq(d, 1, 4) = <<82, 73, 70, 70>>
    /\ SubSeq(d, 9, 12) = <<87, 69, 66, 80>>

\* The VP8X chunks of the output of webp::strip, each with the chunk of the
\* input it was emitted for: <<output chunk, input chunk>>.
Vp8xPairs ==
    LET kept == SelectSeq(RiffChunksOf(sin, 12), KeptRiffChunk)
        out == RiffChunksOf(sres.data, 12)
    IN  {<<out[k], kept[k]>> : k \in {j \in 1..Len(out) : out[j].fourcc = <<86, 80, 56, 88>>}}

\* The flags byte is cleared of bits 3 and 5 and nothing else has changed.
Vp8xUpdated(o, c) ==
    /\ Len(o.data) = Len(c.data)
    /\ FlagsCleared(o.data[1], c.data[1])
    /\ \A j \in 2..Len(c.data) : o.data[j] = c.data[j]

\* C26 as stated: for every VP8X chunk that webp::strip re-emits, whatever the
\* length of its data, bits 3 and 5 of its first data byte are 0 in the output
\* and every other bit of that byte and every other byte equal the input's.
C26_Vp8xFlagsClearedAnyLength ==
    (spc = "once" /\ sres.kind = "Ok" /\ IsWebpInput(sin)) =>
        \A pr \in Vp8xPairs : Len(pr[2].data) >= 1 => Vp8xUpdated(pr[1], pr[2])

\* C26 as amended: the same for every re-emitted VP8X chunk of at least four
\* data bytes; a VP8X chunk of fewer data bytes is re-emitted as it is.
C26_Vp8xFlagsCleared ==
    (spc = "once" /\ sres.kind = "Ok" /\ IsWebpInput(sin)) =>
        \A pr \in Vp8xPairs :
            IF Len(pr[2].data) >= 4 THEN Vp8xUpdated(pr[1], pr[2])
            ELSE pr[1].data = pr[2].data

\* A WebP whose VP8X chunk has four data bytes, the first one FF, was stripped:
\* the chunk came out with D7 as its first byte, and the empty VP8X chunk
\* behind it came out too.
C26_Witness ==
    /\ spc = "once" /\ sin = WebpFlagsVp8x /\ sres.kind = "Ok"
    /\ Cardinality(Vp8xPairs) = 2
    /\ \E pr \in Vp8xPairs : pr[2].data = <<255, 1, 2, 3>> /\ pr[1].data = <<215, 1, 2, 3>>

\* ---- properties of strip_metadata ----

\* The byte order of a TIFF buffer.
ByteOrderOf(data) == IF Slice(data, 0, 2) = LITTLE_ENDIAN THEN "Little" ELSE "Big"

\* The entries of the IFD chain of a TIFF buffer that starts at `cur`, metadata
\* entries included; an IFD that cannot be parsed, or was seen before, ends it.
RECURSIVE ChainEntries(_, _, _, _)
ChainEntries(data, bo, cur, seen) ==
    IF cur = 0 \/ cur >= Len(data) \/ cur \in seen THEN <<>>
    ELSE LET p == ParseIfd(data, cur, bo)
         IN  IF ~p.ok THEN <<>>
             ELSE p.entries \o ChainEntries(data, bo, p.next, seen \cup {cur})

IfdEntriesOf(data) == ChainEntries(data, ByteOrderOf(data), ReadU32(ByteOrderOf(data), data, 4), {})

HasMetadataEntry(data) ==
    \E i \in 1..Len(IfdEntriesOf(data)) : IsMetadataTag(IfdEntriesOf(data)[i].tag)

\* The first call returned Ok for a TIFF input.
TiffStripped == spc \in {"once", "twice", "hung"} /\ sres.kind = "Ok" /\ DetectFormat(sin) = "Tiff"

\* C7: stripping is idempotent: when strip_metadata succeeds on x with output
\* y, strip_metadata(y) succeeds too, removes 0 bytes and returns a buffer of
\* the length of y.
C7_StripIdempotent ==
    (sres.kind = "Ok" /\ spc \in {"twice", "hung"}) =>
        /\ spc = "twice"
        /\ sres2.kind = "Ok"
        /\ sres2.bytes_removed = 0
        /\ Len(sres2.data) = Len(sres.data)

\* A 51-byte TIFF (StripOffsets, StripByteCounts, Make; one strip byte at
\* offset 50) is stripped to 39 bytes that still say StripOffsets = 50; the
\* second call finds no strip there and returns 38 bytes.
C7_Witness ==
    /\ sin = TiffSample("Little", 0, <<MAKE>>, FALSE, 1)
    /\ spc = "twice"
    /\ Len(sin) = 51 /\ Len(sres.data) = 39
    /\ sres2.kind = "Ok" /\ Len(sres2.data) = 38 /\ sres2.bytes_removed = 1

\* C8: the buffer strip_metadata returns is detected as the format of its input.
C8_OutputKeepsFormat ==
    (spc \in {"once", "twice", "hung"} /\ sres.kind = "Ok") =>
        DetectFormat(sres.data) = DetectFormat(sin)

\* SOI, one Exif segment, EOI: the output is FF D8 FF D9, too short to be
\* detected as anything.
C8_Witness ==
    /\ sin = JpegOnlyExif
    /\ spc = "once"
    /\ DetectFormat(sin) = "Jpeg"
    /\ sres.kind = "Ok" /\ sres.data = <<MARKER_PREFIX, SOI, MARKER_PREFIX, EOI>>
    /\ DetectFormat(sres.data) = "None"

\* The n bytes at `off` are in the output where they were in the input.
SameBytesAt(off, n) ==
    off + n <= Len(sin) =>
        /\ off + n <= Len(sres.data)
        /\ Slice(sres.data, off, off + n) = Slice(sin, off, off + n)

\* Every (offset, count) pair of a StripOffsets/TileOffsets entry e of the
\* output designates in the output the bytes it designated in the input.
StripDataInPlace(entries, e) ==
    LET pairs == EntryDataToCopy(sin, ByteOrderOf(sin), entries, e)
    IN  \A i \in 1..Len(pairs) : SameBytesAt(pairs[i][1], pairs[i][2])

\* The value array of an entry e too large to be inline is, in the output,
\* where e's offset says.
ValueArrayInPlace(e) ==
    ~IsInline(e) =>
        SameBytesAt(ReadU32(ByteOrderOf(sin), e.value_offset, 0),
                    TypeSize(e.field_type) * e.count)

\* C9: in the output of tiff::strip every absolute offset a retained IFD entry
\* holds (strip/tile offsets, offsets of out-of-line value arrays) designates
\* the same bytes as in the input: no retained entry holds a stale offset.
C9_TiffOffsetsValid ==
    TiffStripped =>
        LET entries == FilterEntries(IfdEntriesOf(sres.data))
        IN  \A i \in 1..Len(entries) :
                /\ StripDataInPlace(entries, entries[i])
                /\ ValueArrayInPlace(entries[i])

\* The 39-byte output of the 51-byte TIFF: its first entry is StripOffsets
\* with the input's value 50, past the end of the output.
C9_Witness ==
    /\ sin = TiffSample("Little", 0, <<MAKE>>, FALSE, 1)
    /\ spc = "once" /\ sres.kind = "Ok"
    /\ ReadU16("Little", sres.data, 10) = STRIP_OFFSETS
    /\ ReadU32("Little", sres.data, 18) = 50
    /\ Len(sres.data) = 39

\* C10: for an accepted TIFF with at least one metadata entry the output is
\* strictly shorter than the input, bytes_removed > 0, and no IFD entry of the
\* output has a metadata tag.
C10_TiffMetadataRemoved ==
    (TiffStripped /\ HasMetadataEntry(sin)) =>
        /\ Len(sres.data) < Len(sin)
        /\ sres.bytes_removed > 0
        /\ ~HasMetadataEntry(sres.data)

\* create_tiff_with_metadata() is 111 bytes; the rewrite would be 87 bytes, so
\* the input comes back unchanged, Make and Software included.
C10_Witness ==
    /\ sin = CreateTiffWithMetadata
    /\ spc = "once" /\ sres.kind = "Ok"
    /\ Len(sin) = 111
    /\ sres.data = sin /\ sres.bytes_removed = 0
    /\ HasMetadataEntry(sres.data)

\* ---- properties of tiff::strip ----

\* The IFDs of the chain that starts at `cur`, each as the sequence of its
\* entries; an IFD that cannot be parsed, or was seen before, ends the chain.
RECURSIVE ChainIfds(_, _, _, _)
ChainIfds(data, bo, cur, seen) ==
    IF cur = 0 \/ cur >= Len(data) \/ cur \in seen THEN <<>>
    ELSE LET p == ParseIfd(data, cur, bo)
         IN  IF ~p.ok THEN <<>>
             ELSE <<p.entries>> \o ChainIfds(data, bo, p.next, seen \cup {cur})

IfdChainOf(data) ==
    ChainIfds(data, ByteOrderOf(data), ReadU32(ByteOrderOf(data), data, 4), {})

NotMetadataEntry(e) == e.tag \notin METADATA_TAGS

\* C27: for an accepted TIFF whose IFD chain has k >= 1 IFDs, the header of
\* the output points to a chain of exactly k IFDs, linked by next-IFD pointers
\* and ended by 0, and the i-th IFD of the output holds the non-metadata
\* entries of the i-th IFD of the input, in their order.
C27_TiffKeepsIfdChain ==
    (/\ spc \in {"once", "twice"} /\ DetectFormat(sin) = "Tiff" /\ sres.kind = "Ok"
     /\ Len(IfdChainOf(sin)) >= 1) =>
        /\ Len(IfdChainOf(sres.data)) = Len(IfdChainOf(sin))
        /\ \A i \in 1..Len(IfdChainOf(sin)) :
              IfdChainOf(sres.data)[i] = SelectSeq(IfdChainOf(sin)[i], NotMetadataEntry)

\* The TIFF of two IFDs was accepted, and the chain of the output has one IFD.
C27_Witness ==
    /\ spc = "once" /\ sin = TiffTwoIfds /\ sres.kind = "Ok"
    /\ Len(IfdChainOf(sin)) = 2
    /\ Len(IfdChainOf(sres.data)) = 1
    /\ Len(sres.data) = 44

\* C28: tiff::strip terminates on every finite input, one whose next-IFD
\* pointers form a cycle included: a call that was made on a TIFF buffer has
\* returned Ok or InvalidImage, it is not left running for ever.
C28_TiffStripTerminates ==
    (DetectFormat(sin) = "Tiff" /\ spc # "start") =>
        /\ spc # "hung"
        /\ sres.kind \in {"Ok", "InvalidImage"}

\* The call on the TIFF whose IFD names itself as the next IFD has not returned.
C28_Witness ==
    /\ spc = "hung" /\ sin = TiffCyclic
    /\ ParseIfd(sin, 8, "Little").next = 8

====
